---- MODULE Spec2Model ----
(***************************************************************************)
(* kv-entity: the mapping layer that turns entity / component / relation   *)
(* operations into batches of ordered-key mutations of a transactional     *)
(* ordered key-value store.                                                *)
(*                                                                         *)
(* Keys are byte strings, modelled as sequences of character codes, so     *)
(* that the lexicographic order the scans rely on is the real one.         *)
(* The store maps keys to values; a transaction buffers an ordered list    *)
(* of mutations (Put / Del) that is applied to the store at commit.        *)
(***************************************************************************)
EXTENDS Integers, Sequences, FiniteSets, TLC

VARIABLES
    store,   \* committed content of the KV engine: key -> value
    last,    \* the last operation that returned, with its arguments and outcome
    nops,    \* number of operations started so far
    txns     \* the transactions in flight (concurrent executions only)

vars == <<store, last, nops, txns>>

\* bound on the number of operations of one behaviour
MaxOps == 3

(***************************************************************************)
(* Characters and literal strings of the key schema                        *)
(***************************************************************************)
Slash == 47
Tilde == 126

PComponentSingle == <<99, 111, 109, 112, 111, 110, 101, 110, 116, 47, 115, 105, 110, 103, 108, 101, 47>>  \* "component/single/"
PComponentIndex == <<99, 111, 109, 112, 111, 110, 101, 110, 116, 47, 105, 110, 100, 101, 120, 47>>  \* "component/index/"
PEntityMetadata == <<101, 110, 116, 105, 116, 121, 47, 109, 101, 116, 97, 100, 97, 116, 97, 47>>  \* "entity/metadata/"
PRelationEdge == <<114, 101, 108, 97, 116, 105, 111, 110, 47, 101, 100, 103, 101, 47>>  \* "relation/edge/"
PRelationData == <<114, 101, 108, 97, 116, 105, 111, 110, 47, 100, 97, 116, 97, 47>>  \* "relation/data/"
SIn == <<105, 110>>  \* "in"
SOut == <<111, 117, 116>>  \* "out"
EPrefix == <<101, 45>>  \* "e-"
SResource == <<114, 101, 115, 111, 117, 114, 99, 101>>  \* "resource"

(***************************************************************************)
(* Byte-string order and splitting                                         *)
(***************************************************************************)
\* a < b in the lexicographic order of byte strings
KeyLess(a, b) ==
    \E i \in 1..Len(b) :
        /\ i <= Len(a) + 1
        /\ \A j \in 1..(i - 1) : a[j] = b[j]
        /\ (i = Len(a) + 1 \/ a[i] < b[i])

KeyLeq(a, b) == a = b \/ KeyLess(a, b)

\* position of the first Slash of s, or Len(s) + 1
FirstSlash(s) ==
    IF \E i \in 1..Len(s) : s[i] = Slash
    THEN CHOOSE i \in 1..Len(s) : s[i] = Slash /\ \A j \in 1..(i - 1) : s[j] # Slash
    ELSE Len(s) + 1

RECURSIVE Split(_)
\* str::split("/"): the segments of s between slashes
Split(s) ==
    LET p == FirstSlash(s)
    IN  IF p > Len(s)
        THEN <<s>>
        ELSE <<SubSeq(s, 1, p - 1)>> \o Split(SubSeq(s, p + 1, Len(s)))

\* Iterator::nth(n), zero based; <<>> stands for None
Nth(segs, n) == IF n + 1 <= Len(segs) THEN <<segs[n + 1]>> ELSE <<>>

(***************************************************************************)
(* EntityID                                                                *)
(***************************************************************************)
Entity(s) == [kind |-> "Entity", id |-> s]
Resource == [kind |-> "Resource", id |-> <<>>]
Empty == [kind |-> "Empty", id |-> <<>>]
Max == [kind |-> "Max", id |-> <<>>]

\* the text an EntityID takes in a key
EntityText(e) ==
    CASE e.kind = "Entity" -> EPrefix \o e.id
      [] e.kind = "Resource" -> SResource
      [] e.kind = "Empty" -> <<>>
      [] e.kind = "Max" -> <<Tilde>>
      [] e.kind = "Raw" -> e.id

\* EntityID::new_raw: the EntityID whose text is t
new_raw(t) ==
    IF t = <<>> THEN Empty
    ELSE IF t = <<Tilde>> THEN Max
    ELSE IF t = SResource THEN Resource
    ELSE IF Len(t) >= 2 /\ SubSeq(t, 1, 2) = EPrefix THEN Entity(SubSeq(t, 3, Len(t)))
    ELSE [kind |-> "Raw", id |-> t]

(***************************************************************************)
(* Key builders                                                            *)
(***************************************************************************)
component_data_path(type_path, entity_id) ==
    PComponentSingle \o type_path \o <<Slash>> \o EntityText(entity_id)

entity_metadata_path(entity_id) == PEntityMetadata \o EntityText(entity_id)

component_index_path(type_path, field_name, value, entity_id) ==
    PComponentIndex \o type_path \o <<Slash>> \o field_name \o <<Slash>> \o value
        \o <<Slash>> \o EntityText(entity_id)

\* a faulty variant of `!`: the direction itself
Not_Same(direction) == direction

\* impl Not for RelationDirection
Not(direction) ==
    CASE direction = "In" -> "Out"
      [] direction = "Out" -> "In"
      [] direction = "Both" -> "Both"

relation_edge_path(type_path, x, y, direction) ==
    IF direction = "Both"
    THEN PRelationEdge \o EntityText(x) \o <<Slash>> \o type_path \o <<Slash>> \o EntityText(y)
    ELSE PRelationEdge \o EntityText(x) \o <<Slash>> \o type_path \o <<Slash>>
            \o (IF direction = "In" THEN SIn ELSE SOut) \o <<Slash>> \o EntityText(y)

relation_data_path(type_path, x, y) ==
    PRelationData \o type_path \o <<Slash>> \o EntityText(x) \o <<Slash>> \o EntityText(y)

relation_edge_no_type_path(entity_id, type_path) ==
    PRelationEdge \o EntityText(entity_id) \o <<Slash>> \o type_path

(***************************************************************************)
(* DB::entity (db.rs)                                                      *)
(***************************************************************************)
\* DB::entity: the handle of the entity with the user's id; the id is put
\* behind "e-" as it is
DB_entity(entity_id) == [status |-> "Ok", entity_id |-> Entity(entity_id)]

(***************************************************************************)
(* The derive's numeric encoding (kv-entity-derive/src/lib.rs).  An        *)
(* integer is a sign and a magnitude; a magnitude is four 16-bit limbs,    *)
(* most significant first, so that 64-bit values are computed exactly.     *)
(***************************************************************************)
LimbBase == 2 ^ 16
ZeroMag == <<0, 0, 0, 0>>

\* a < b on magnitudes
MagLess(a, b) ==
    \E i \in 1..Len(a) : a[i] < b[i] /\ \A j \in 1..(i - 1) : a[j] = b[j]

RECURSIVE AddCarry(_, _, _, _)
AddCarry(a, b, i, carry) ==
    IF i = 0 THEN <<>>
    ELSE LET s == a[i] + b[i] + carry
         IN  AddCarry(a, b, i - 1, s \div LimbBase) \o <<s % LimbBase>>
\* a + b (the sums of the encoding stay below 2^64)
MagAdd(a, b) == AddCarry(a, b, Len(a), 0)

RECURSIVE SubBorrow(_, _, _, _)
SubBorrow(a, b, i, borrow) ==
    IF i = 0 THEN <<>>
    ELSE LET d == a[i] - b[i] - borrow
         IN  SubBorrow(a, b, i - 1, IF d < 0 THEN 1 ELSE 0)
                 \o <<IF d < 0 THEN d + LimbBase ELSE d>>
\* a - b, for a >= b
MagSub(a, b) == SubBorrow(a, b, Len(a), 0)

RECURSIVE DivLimbs(_, _, _)
\* long division of a by ten from limb i on, r the remainder carried in
DivLimbs(a, i, r) ==
    IF i > Len(a) THEN [q |-> <<>>, r |-> r]
    ELSE LET cur == r * LimbBase + a[i]
             rest == DivLimbs(a, i + 1, cur % 10)
         IN  [q |-> <<cur \div 10>> \o rest.q, r |-> rest.r]

RECURSIVE Decimal(_)
\* the decimal digits of a magnitude, none for zero
Decimal(a) ==
    IF a = ZeroMag THEN <<>>
    ELSE LET d == DivLimbs(a, 1, 0) IN Decimal(d.q) \o <<48 + d.r>>

\* format!("{:0width}", a): the decimal digits, padded with zeros on the left
\* up to width, never cut
ZeroPadded(width, a) ==
    LET digits == IF a = ZeroMag THEN <<48>> ELSE Decimal(a)
        pad == width - Len(digits)
    IN  IF pad > 0 THEN [i \in 1..pad |-> 48] \o digits ELSE digits

\* value + offset, for an offset that is not less than -value
OffsetValue(value, offset) ==
    IF value.neg THEN MagSub(offset, value.mag) ELSE MagAdd(value.mag, offset)

\* a faulty variant of generate_numeric_encoding: signed values are formatted
\* by their magnitude, without the offset
generate_numeric_encoding_NoOffset(type_str, value) ==
    CASE type_str \in {"u8", "i8"} -> ZeroPadded(3, value.mag)
      [] type_str \in {"u16", "i16"} -> ZeroPadded(5, value.mag)
      [] type_str \in {"u32", "i32"} -> ZeroPadded(10, value.mag)
      [] type_str \in {"u64", "i64"} -> ZeroPadded(20, value.mag)

\* generate_numeric_encoding: the body of encode_<field> for an integer field
generate_numeric_encoding(type_str, value) ==
    CASE type_str = "u8" -> ZeroPadded(3, value.mag)
      [] type_str = "u16" -> ZeroPadded(5, value.mag)
      [] type_str = "u32" -> ZeroPadded(10, value.mag)
      [] type_str = "u64" -> ZeroPadded(20, value.mag)
      [] type_str = "i8" -> ZeroPadded(3, OffsetValue(value, <<0, 0, 0, 128>>))
      [] type_str = "i16" -> ZeroPadded(5, OffsetValue(value, <<0, 0, 0, 32768>>))
      [] type_str = "i32" -> ZeroPadded(10, OffsetValue(value, <<0, 0, 32768, 0>>))
      [] type_str = "i64" -> ZeroPadded(20, OffsetValue(value, <<32768, 0, 0, 0>>))

\* the integer types of the encoding and their values
IntTypes == {"u8", "u16", "u32", "u64", "i8", "i16", "i32", "i64"}
Signed(type_str) == type_str \in {"i8", "i16", "i32", "i64"}
\* T::MAX, and the magnitude of T::MIN
MaxMag(type_str) ==
    CASE type_str = "u8" -> <<0, 0, 0, 255>>
      [] type_str = "u16" -> <<0, 0, 0, 65535>>
      [] type_str = "u32" -> <<0, 0, 65535, 65535>>
      [] type_str = "u64" -> <<65535, 65535, 65535, 65535>>
      [] type_str = "i8" -> <<0, 0, 0, 127>>
      [] type_str = "i16" -> <<0, 0, 0, 32767>>
      [] type_str = "i32" -> <<0, 0, 32767, 65535>>
      [] type_str = "i64" -> <<32767, 65535, 65535, 65535>>
MinMag(type_str) == IF Signed(type_str) THEN MagAdd(MaxMag(type_str), <<0, 0, 0, 1>>)
                    ELSE ZeroMag

\* a < b on integers
IntLess(a, b) ==
    IF a.neg /\ ~b.neg THEN TRUE
    ELSE IF ~a.neg /\ b.neg THEN FALSE
    ELSE IF a.neg THEN MagLess(b.mag, a.mag)
    ELSE MagLess(a.mag, b.mag)

\* the magnitudes the model draws: every 8-bit one, and for the wider types
\* the ones around the limits of the types and around the powers of ten
SampleMags ==
    {<<0, 0, 0, n>> : n \in 0..256}
        \cup {<<0, 0, 0, n>> : n \in {999, 1000, 9999, 10000, 32767, 32768, 65534, 65535}}
        \cup {<<0, 0, 1, 0>>, <<0, 0, 15258, 51711>>, <<0, 0, 15258, 51712>>,
              <<0, 0, 32767, 65535>>, <<0, 0, 32768, 0>>, <<0, 0, 65535, 65535>>,
              <<0, 1, 0, 0>>, <<1, 0, 0, 0>>,
              <<32767, 65535, 65535, 65535>>, <<32768, 0, 0, 0>>,
              <<35527, 8964, 35303, 65535>>, <<35527, 8964, 35304, 0>>,
              <<65535, 65535, 65535, 65535>>}
WideMags == {m \in SampleMags : m[4] \notin 20..235 \/ m[1] + m[2] + m[3] > 0}
MagsOf(type_str) == IF type_str \in {"u8", "i8"} THEN SampleMags ELSE WideMags
IntValues(type_str) ==
    {[neg |-> FALSE, mag |-> m] :
        m \in {x \in MagsOf(type_str) : ~MagLess(MaxMag(type_str), x)}}
    \cup {[neg |-> TRUE, mag |-> m] :
            m \in {x \in MagsOf(type_str) :
                      x # ZeroMag /\ ~MagLess(MinMag(type_str), x)}}

(***************************************************************************)
(* Declared component and relation types (examples/mini.rs)                *)
(***************************************************************************)
UserInfo == <<85>>          \* type path "U"
UserExtend == <<85, 88>>    \* type path "UX": UserInfo's path is a proper prefix of it
FriendRelation == <<70>>    \* type path "F"
FName == <<110, 97, 109, 101>>  \* "name"

\* a String that reads as a key of the store: the payload key of UserInfo on e-1
PathName == component_data_path(UserInfo, Entity(<<49>>))
\* the values the model draws for UserInfo.name (a String, the empty one included)
Names == {<<>>, <<97>>, <<98>>, PathName}   \* "", "a", "b", "component/single/U/e-1"
Extends == {<<120>>}              \* "x"
Favorabilities == {100}

\* a component value: its type and its payload
Component(T, d) == [type_path |-> T, data |-> d]
type_path(value) == value.type_path

\* KvComponent::indexed_field_names
indexed_field_names(T) == IF T = UserInfo THEN <<FName>> ELSE <<>>

\* the derive's encode_<field> of a String field: value.into()
encode_name(value) == value

\* KvComponent::indexed_fields: (field name, encoded value) pairs
indexed_fields(value) ==
    IF value.type_path = UserInfo THEN <<<<FName, encode_name(value.data)>>>> ELSE <<>>

\* HashMap::get on the collected indexed_fields; <<>> stands for None
FieldsGet(pairs, field) ==
    IF \E i \in 1..Len(pairs) : pairs[i][1] = field
    THEN <<pairs[CHOOSE i \in 1..Len(pairs) : pairs[i][1] = field][2]>>
    ELSE <<>>

Range(f) == {f[x] : x \in DOMAIN f}

(***************************************************************************)
(* The KV engine: mutations, transaction buffer, commit, scans             *)
(***************************************************************************)
Put(k, v) == [op |-> "Put", key |-> k, value |-> v]
Del(k) == [op |-> "Del", key |-> k, value |-> <<>>]

\* one mutation applied to a key -> value map
Mutate(m, mu) ==
    IF mu.op = "Put"
    THEN [k \in DOMAIN m \cup {mu.key} |-> IF k = mu.key THEN mu.value ELSE m[k]]
    ELSE [k \in DOMAIN m \ {mu.key} |-> m[k]]

RECURSIVE batch_mutate(_, _)
\* Transaction::batch_mutate: the mutations take effect in order, the last one
\* on a key winning
batch_mutate(m, mutations) ==
    IF mutations = <<>> THEN m
    ELSE batch_mutate(Mutate(m, Head(mutations)), Tail(mutations))

\* what a transaction reads: its snapshot overlaid with its own buffered writes
TxnView(snap, txn) == batch_mutate(snap, txn)

\* Transaction::commit of an optimistic transaction without a conflict
Commit(st, txn) == batch_mutate(st, txn)

RECURSIVE SortKeys(_)
\* a finite set of keys in ascending byte order
SortKeys(S) ==
    IF S = {} THEN <<>>
    ELSE LET k == CHOOSE x \in S : \A y \in S : KeyLeq(x, y)
         IN  <<k>> \o SortKeys(S \ {k})

\* scan / scan_keys of the half-open range start..end, at most limit keys
scan_keys(view, start, end, limit) ==
    LET all == SortKeys({k \in DOMAIN view : KeyLeq(start, k) /\ KeyLess(k, end)})
    IN  SubSeq(all, 1, IF Len(all) < limit THEN Len(all) ELSE limit)

\* a next_key that does not advance
next_key_Same(key) == key

\* utils::next_key: increment the last byte below 0xff
next_key(key) ==
    IF \E i \in 1..Len(key) : key[i] < 255
    THEN LET i == CHOOSE i \in 1..Len(key) :
                      key[i] < 255 /\ \A j \in (i + 1)..Len(key) : key[j] >= 255
         IN  [key EXCEPT ![i] = key[i] + 1]
    ELSE key

\* scaled page size of the paged scans (128 in the source)
PAGE_SIZE == 2

\* one turn of the paged scan loop shared by the scanning handlers: a page of
\* keys, the key the next turn starts at, whether the loop ends
scan_page(view, start_key, end_key) ==
    LET kvs == scan_keys(view, start_key, end_key, PAGE_SIZE)
    IN  IF kvs = <<>> THEN [kvs |-> kvs, start_key |-> start_key, done |-> TRUE]
        ELSE [kvs |-> kvs, start_key |-> next_key(kvs[Len(kvs)]),
              done |-> Len(kvs) < PAGE_SIZE]

RECURSIVE PagedScan(_, _, _)
\* the paged scan loop shared by the scanning handlers: all keys of
\* start_key..end_key, page after page
PagedScan(view, start_key, end_key) ==
    LET kvs == scan_keys(view, start_key, end_key, PAGE_SIZE)
    IN  IF kvs = <<>> THEN <<>>
        ELSE IF Len(kvs) < PAGE_SIZE THEN kvs
        ELSE kvs \o PagedScan(view, next_key(kvs[Len(kvs)]), end_key)

(***************************************************************************)
(* Entity metadata                                                         *)
(***************************************************************************)
\* EntityMetadata::default(): no archetypes
DefaultMetadata == [component_archetypes |-> <<>>]

\* EntityHandler::get_metadata; <<>> stands for None
get_metadata(view, e) ==
    IF entity_metadata_path(e) \in DOMAIN view
    THEN <<view[entity_metadata_path(e)]>>
    ELSE <<>>

\* EntityHandler::update_metadata: txn.put of the metadata row
update_metadata(e, metadata) == <<Put(entity_metadata_path(e), metadata)>>

\* EntityHandler::delete_metadata: txn.delete of the metadata row
delete_metadata(e) == <<Del(entity_metadata_path(e))>>

\* HashMap::remove on component_archetypes
ArchRemove(archetypes, T) == [t \in DOMAIN archetypes \ {T} |-> archetypes[t]]

\* HashMap insert / overwrite on component_archetypes
ArchSet(archetypes, T, arch) ==
    [t \in DOMAIN archetypes \cup {T} |-> IF t = T THEN arch ELSE archetypes[t]]

(***************************************************************************)
(* Component handlers.  A handler returns its outcome and the ordered      *)
(* list of writes its transaction holds when it commits.                   *)
(***************************************************************************)
Ok(txn) == [status |-> "Ok", txn |-> txn, closed |-> "commit"]
\* an Err(NotFound) return; closed tells how the opened transaction was left
NotFound(closed) == [status |-> "NotFound", txn |-> <<>>, closed |-> closed]
\* an Err(TikvError) return out of a `?` on an engine call
TikvError == [status |-> "TikvError", txn |-> <<>>, closed |-> "dropped"]

\* the outcomes of a handler once the engine has seen its writes: a write list
\* holding a mutation with an empty key is taken or refused by the engine
\* (batch_mutate(..).map_err(Error::TikvError)?), any other list is taken
Outcomes(r) ==
    IF r.status = "Ok" /\ \E i \in 1..Len(r.txn) : r.txn[i].key = <<>>
    THEN {r, TikvError}
    ELSE {r}

RECURSIVE AttachLoop_PutFirst(_, _, _, _, _)
\* a faulty variant of the loop: the PUT of the fresh index row is queued before
\* the DEL of the recorded one
AttachLoop_PutFirst(e, T, todo, index_keys, fresh) ==
    IF todo = <<>> THEN [mutations |-> <<>>, index_keys |-> index_keys]
    ELSE LET field == Head(todo)
             key == index_keys[field]
             del == IF key # <<>>
                    THEN <<Del(component_index_path(T, field, key, e))>>
                    ELSE <<>>
             got == FieldsGet(fresh, field)
             put == IF got = <<>> THEN <<>>
                    ELSE <<Put(component_index_path(T, field, got[1], e), EntityText(e))>>
             keys2 == IF got = <<>> THEN index_keys
                      ELSE [index_keys EXCEPT ![field] = got[1]]
             rest == AttachLoop_PutFirst(e, T, Tail(todo), keys2, fresh)
         IN  [mutations |-> put \o del \o rest.mutations, index_keys |-> rest.index_keys]

RECURSIVE AttachLoop(_, _, _, _, _)
\* attach_component_in_txn, the loop over the archetype's index_keys:
\* DEL of the recorded previous index row, PUT of the fresh one, record it
AttachLoop(e, T, todo, index_keys, fresh) ==
    IF todo = <<>> THEN [mutations |-> <<>>, index_keys |-> index_keys]
    ELSE LET field == Head(todo)
             key == index_keys[field]
             del == IF key # <<>>
                    THEN <<Del(component_index_path(T, field, key, e))>>
                    ELSE <<>>
             got == FieldsGet(fresh, field)
             put == IF got = <<>> THEN <<>>
                    ELSE <<Put(component_index_path(T, field, got[1], e), EntityText(e))>>
             keys2 == IF got = <<>> THEN index_keys
                      ELSE [index_keys EXCEPT ![field] = got[1]]
             rest == AttachLoop(e, T, Tail(todo), keys2, fresh)
         IN  [mutations |-> del \o put \o rest.mutations, index_keys |-> rest.index_keys]

\* EntityHandler::attach_component_in_txn: extends the pending mutations and
\* updates the in-memory metadata
attach_component_in_txn(e, mutations, metadata, value) ==
    LET T == type_path(value)
        fresh == indexed_fields(value)
        default_archetype ==
            [index_keys |-> [f \in Range(indexed_field_names(T)) |-> <<>>]]
        archetypes == metadata.component_archetypes
        arch == IF T \in DOMAIN archetypes THEN archetypes[T] ELSE default_archetype
        loop == AttachLoop(e, T, SortKeys(DOMAIN arch.index_keys), arch.index_keys, fresh)
    IN  [mutations |-> mutations \o loop.mutations
                         \o <<Put(component_data_path(T, e), value)>>,
         metadata |-> [component_archetypes |->
                          ArchSet(archetypes, T, [index_keys |-> loop.index_keys])]]

RECURSIVE AttachAll(_, _, _)
\* the components of a bundle, attached in tuple order
AttachAll(e, acc, bundle) ==
    IF bundle = <<>> THEN acc
    ELSE AttachAll(e, attach_component_in_txn(e, acc.mutations, acc.metadata, Head(bundle)),
                   Tail(bundle))

\* a faulty variant of attach_to: the metadata row is left out of the transaction
attach_to_NoMetadata(snap, txn, e, bundle) ==
    LET md == get_metadata(TxnView(snap, txn), e)
        metadata == IF md = <<>> THEN DefaultMetadata ELSE md[1]
        r == AttachAll(e, [mutations |-> <<>>, metadata |-> metadata], bundle)
    IN  txn \o r.mutations

\* ComponentBundle::attach_to: read the metadata, attach every component,
\* batch the mutations, write the metadata
attach_to(snap, txn, e, bundle) ==
    LET md == get_metadata(TxnView(snap, txn), e)
        metadata == IF md = <<>> THEN DefaultMetadata ELSE md[1]
        r == AttachAll(e, [mutations |-> <<>>, metadata |-> metadata], bundle)
    IN  txn \o r.mutations \o update_metadata(e, r.metadata)

\* EntityHandler::attach
attach(snap, e, bundle) == Ok(attach_to(snap, <<>>, e, bundle))

\* a faulty variant of detach: a missing metadata row is taken for an empty one
detach_MissingMetadataOk(snap, e, T) ==
    IF indexed_field_names(T) # <<>> /\ get_metadata(snap, e) = <<>>
    THEN Ok(update_metadata(e, DefaultMetadata) \o <<Del(component_data_path(T, e))>>)
    ELSE Ok(<<Del(component_data_path(T, e))>>)

\* EntityHandler::detach::<T>
detach(snap, e, T) ==
    IF indexed_field_names(T) # <<>>
    THEN LET md == get_metadata(snap, e)
         IN  IF md = <<>> THEN NotFound("rollback")
             ELSE IF T \notin DOMAIN md[1].component_archetypes THEN NotFound("dropped")
             ELSE LET index_keys == md[1].component_archetypes[T].index_keys
                      fs == SortKeys(DOMAIN index_keys)
                      \* key.clone().into(): the recorded value is the mutation's key
                      mutations == [i \in 1..Len(fs) |-> Del(index_keys[fs[i]])]
                      metadata == [component_archetypes |->
                                      ArchRemove(md[1].component_archetypes, T)]
                  IN  Ok(mutations \o update_metadata(e, metadata)
                           \o <<Del(component_data_path(T, e))>>)
    ELSE Ok(<<Del(component_data_path(T, e))>>)

(***************************************************************************)
(* Relation handlers                                                       *)
(***************************************************************************)
\* the (entity_id, direction, type_path) an edge marker key parses to:
\* segments 5, 4 and 3 of the key split at "/"
ParseEdge(key) ==
    LET segs == Split(key)
    IN  [entity_id |-> new_raw(Nth(segs, 5)[1]),
         direction |-> CASE Nth(segs, 4)[1] = SIn -> "In"
                         [] Nth(segs, 4)[1] = SOut -> "Out",
         type_path |-> Nth(segs, 3)[1]]

\* EntityHandler::edges_entity_in_txn: the markers of e for one relation type
edges_entity_in_txn(view, T, e, direction) ==
    LET keys == PagedScan(view, relation_edge_path(T, e, Empty, direction),
                                relation_edge_path(T, e, Max, direction))
    IN  [i \in 1..Len(keys) |-> ParseEdge(keys[i])]

\* EntityHandler::scan_edges_all_in_txn: the markers of e for every relation type
scan_edges_all_in_txn(view, e) ==
    LET keys == PagedScan(view, relation_edge_no_type_path(e, <<>>),
                                relation_edge_no_type_path(e, <<Tilde>>))
    IN  [i \in 1..Len(keys) |-> ParseEdge(keys[i])]

\* EntityHandler::link::<T>: three PUTs
link(e, other, T, value) ==
    Ok(<<Put(relation_edge_path(T, e, other, "In"), <<>>),
         Put(relation_edge_path(T, other, e, "Out"), <<>>),
         Put(relation_data_path(T, e, other), value)>>)

\* a faulty variant of unlink: the edge's payload row is left in place
unlink_KeepData(e, other, T) ==
    Ok(<<Del(relation_edge_path(T, e, other, "In")),
         Del(relation_edge_path(T, other, e, "Out"))>>)

\* EntityHandler::unlink::<T>: three DELs
unlink(e, other, T) ==
    Ok(<<Del(relation_edge_path(T, e, other, "In")),
         Del(relation_edge_path(T, other, e, "Out")),
         Del(relation_data_path(T, e, other))>>)

\* the three DELs delete_edges enqueues for one scanned marker
DeleteEdgeMutations(T, e, edge) ==
    <<Del(relation_edge_path(T, e, edge.entity_id, edge.direction)),
      Del(relation_edge_path(T, edge.entity_id, e, edge.direction)),
      IF edge.direction = "In"
      THEN Del(relation_data_path(T, e, edge.entity_id))
      ELSE Del(relation_data_path(T, edge.entity_id, e))>>

RECURSIVE Flatten(_)
Flatten(seqs) == IF seqs = <<>> THEN <<>> ELSE Head(seqs) \o Flatten(Tail(seqs))

\* EntityHandler::delete_edges::<T>
delete_edges(snap, e, T) ==
    LET edges == edges_entity_in_txn(snap, T, e, "Both")
    IN  Ok(Flatten([i \in 1..Len(edges) |-> DeleteEdgeMutations(T, e, edges[i])]))

(***************************************************************************)
(* delete                                                                  *)
(***************************************************************************)
\* a faulty variant of the per-archetype deletes: the payload row is left in place
DeleteComponentMutations_KeepPayload(e, T, archetype) ==
    LET fs == SortKeys(DOMAIN archetype.index_keys)
    IN  [i \in 1..Len(fs) |->
            Del(component_index_path(T, fs[i], archetype.index_keys[fs[i]], e))]

\* delete_in_txn, per archetype: DEL of every recorded index row, DEL of the payload
DeleteComponentMutations(e, T, archetype) ==
    LET fs == SortKeys(DOMAIN archetype.index_keys)
    IN  [i \in 1..Len(fs) |->
            Del(component_index_path(T, fs[i], archetype.index_keys[fs[i]], e))]
        \o <<Del(component_data_path(T, e))>>

\* delete_in_txn, per scanned marker: DEL of the marker, of its mirror, of the payload
DeleteCascadeMutations(e, edge) ==
    <<Del(relation_edge_path(edge.type_path, e, edge.entity_id, edge.direction)),
      Del(relation_edge_path(edge.type_path, edge.entity_id, e, Not(edge.direction))),
      IF edge.direction = "In"
      THEN Del(relation_data_path(edge.type_path, e, edge.entity_id))
      ELSE Del(relation_data_path(edge.type_path, edge.entity_id, e))>>

\* a faulty variant of delete_in_txn: a missing metadata row is taken for an empty
\* one and the entity's edges are deleted all the same
delete_in_txn_MissingMetadataOk(snap, txn, mutations, e) ==
    LET view == TxnView(snap, txn)
        edges == scan_edges_all_in_txn(view, e)
    IN  [status |-> "Ok",
         txn |-> txn \o delete_metadata(e),
         mutations |-> mutations
             \o Flatten([i \in 1..Len(edges) |-> DeleteCascadeMutations(e, edges[i])])]

\* EntityHandler::delete_in_txn: extends the pending mutations; the metadata row
\* is deleted through the transaction at once
delete_in_txn(snap, txn, mutations, e) ==
    LET view == TxnView(snap, txn)
        md == get_metadata(view, e)
    IN  IF md = <<>>
        THEN [status |-> "NotFound", txn |-> <<>>, mutations |-> <<>>]
        ELSE LET archetypes == md[1].component_archetypes
                 ts == SortKeys(DOMAIN archetypes)
                 edges == scan_edges_all_in_txn(view, e)
             IN  [status |-> "Ok",
                  txn |-> txn \o delete_metadata(e),
                  mutations |-> mutations
                      \o Flatten([i \in 1..Len(ts) |->
                                    DeleteComponentMutations(e, ts[i], archetypes[ts[i]])])
                      \o Flatten([i \in 1..Len(edges) |->
                                    DeleteCascadeMutations(e, edges[i])])]

\* EntityHandler::delete
delete(snap, e) ==
    LET r == delete_in_txn(snap, <<>>, <<>>, e)
    IN  IF r.status = "Ok" THEN Ok(r.txn \o r.mutations) ELSE NotFound("rollback")

(***************************************************************************)
(* EntityListHandler                                                       *)
(***************************************************************************)
RECURSIVE ListAttachLoop_FirstOnly(_, _, _, _)
\* a faulty variant of ListAttachLoop: the loop ends after the first entity
ListAttachLoop_FirstOnly(snap, txn, entity_ids, bundle) ==
    IF entity_ids = <<>> THEN txn
    ELSE attach_to(snap, txn, Head(entity_ids), bundle)

RECURSIVE ListAttachLoop(_, _, _, _)
ListAttachLoop(snap, txn, entity_ids, bundle) ==
    IF entity_ids = <<>> THEN txn
    ELSE ListAttachLoop(snap, attach_to(snap, txn, Head(entity_ids), bundle),
                        Tail(entity_ids), bundle)

\* EntityListHandler::attach: every listed entity in one transaction
list_attach(snap, entity_ids, bundle) == Ok(ListAttachLoop(snap, <<>>, entity_ids, bundle))

RECURSIVE ListDeleteLoop(_, _, _, _)
ListDeleteLoop(snap, txn, mutations, entity_ids) ==
    IF entity_ids = <<>> THEN [status |-> "Ok", txn |-> txn, mutations |-> mutations]
    ELSE LET r == delete_in_txn(snap, txn, mutations, Head(entity_ids))
         IN  IF r.status = "Ok"
             THEN ListDeleteLoop(snap, r.txn, r.mutations, Tail(entity_ids))
             ELSE r

\* EntityListHandler::delete: every listed entity in one transaction
list_delete(snap, entity_ids) ==
    LET r == ListDeleteLoop(snap, <<>>, <<>>, entity_ids)
    IN  IF r.status = "Ok" THEN Ok(r.txn \o r.mutations) ELSE NotFound("rollback")

(***************************************************************************)
(* Queries (filter.rs)                                                     *)
(***************************************************************************)
Value(v) == [start |-> v, end |-> v]
RangeCond(lo, hi) == [start |-> lo, end |-> hi]

\* Snapshot::batch_get: the pairs of the requested keys that exist, each once,
\* in key order (the engine does not keep the order of the request)
batch_get(view, keys) ==
    LET found == SortKeys({k \in Range(keys) : k \in DOMAIN view})
    IN  [i \in 1..Len(found) |-> [key |-> found[i], value |-> view[found[i]]]]

\* Filter::query_entity_id_vec: the entity ids stored in the index rows of the
\* condition's key range
query_entity_id_vec(view, T, field_name, cond) ==
    LET keys == PagedScan(view,
                    component_index_path(T, field_name, cond.start, Empty),
                    component_index_path(T, field_name, cond.end, Max))
    IN  [i \in 1..Len(keys) |-> new_raw(view[keys[i]])]

\* Filter::all: the payload rows of the entities the index scan found
all(view, T, field_name, cond) ==
    LET entity_ids == query_entity_id_vec(view, T, field_name, cond)
    IN  batch_get(view, [i \in 1..Len(entity_ids) |-> component_data_path(T, entity_ids[i])])

\* Filter::count: the number of index rows the scan found
count(view, T, field_name, cond) == Len(query_entity_id_vec(view, T, field_name, cond))

\* Filter::list: an EntityListHandler over the entity ids the scan found
list(view, T, field_name, cond) == query_entity_id_vec(view, T, field_name, cond)

\* a faulty variant of EntityListHandler::get: only the first listed entity is read
list_get_FirstOnly(view, T, entity_ids) ==
    LET data == batch_get(view, <<component_data_path(T, entity_ids[1])>>)
    IN  [i \in 1..Len(data) |-> data[i].value]

\* EntityListHandler::get: one batch_get over the payload keys of the listed
\* entities, each pair that comes back decoded
list_get(view, T, entity_ids) ==
    LET data == batch_get(view, [i \in 1..Len(entity_ids) |->
                                   component_data_path(T, entity_ids[i])])
    IN  [i \in 1..Len(data) |-> data[i].value]

\* Filter::query_entity_id: the entity id stored in the first index row of the
\* condition's key range, NotFound when the range holds no row
query_entity_id(view, T, field_name, cond) ==
    LET kvs == scan_keys(view,
                   component_index_path(T, field_name, cond.start, Empty),
                   component_index_path(T, field_name, cond.end, Max), 1)
    IN  IF kvs = <<>> THEN [status |-> "NotFound", entity_id |-> Empty]
        ELSE [status |-> "Ok", entity_id |-> new_raw(view[kvs[1]])]

\* Filter::entity: a handle to the entity the index scan found
entity(view, T, field_name, cond) == query_entity_id(view, T, field_name, cond)

\* Filter::single: the payload of the entity the index scan found, NotFound
\* when the scan finds none or the entity has no payload row of T
single(view, T, field_name, cond) ==
    LET found == query_entity_id(view, T, field_name, cond)
    IN  IF found.status # "Ok" THEN [status |-> found.status, value |-> <<>>]
        ELSE IF component_data_path(T, found.entity_id) \notin DOMAIN view
        THEN [status |-> "NotFound", value |-> <<>>]
        ELSE [status |-> "Ok", value |-> view[component_data_path(T, found.entity_id)]]

\* EntityHandler::get: the payload row of (T, e) in a fresh snapshot; <<>>
\* stands for None
get(view, T, e) ==
    IF component_data_path(T, e) \in DOMAIN view
    THEN <<view[component_data_path(T, e)]>>
    ELSE <<>>

\* EntityHandler::edges, one turn of the loop: a page of e's markers, the
\* batch_get of their payload rows, one item (other entity, direction, payload)
\* per row found; the key the next turn starts at; whether the loop ends
edges_page(view, T, e, start_key, end_key) ==
    LET kvs == scan_keys(view, start_key, end_key, PAGE_SIZE)
        data_keys ==
            [i \in 1..Len(kvs) |->
                LET edge == ParseEdge(kvs[i])
                IN  IF edge.direction = "In"
                    THEN relation_data_path(T, e, edge.entity_id)
                    ELSE relation_data_path(T, edge.entity_id, e)]
        data_values == batch_get(view, data_keys)
        items ==
            [i \in 1..Len(data_values) |->
                LET segs == Split(data_values[i].key)
                    a == new_raw(Nth(segs, 3)[1])
                    b == new_raw(Nth(segs, 4)[1])
                IN  IF e = a
                    THEN [entity_id |-> b, direction |-> "In",
                          value |-> data_values[i].value]
                    ELSE [entity_id |-> a, direction |-> "Out",
                          value |-> data_values[i].value]]
    IN  IF kvs = <<>>
        THEN [items |-> <<>>, start_key |-> start_key, done |-> TRUE, error |-> "none"]
        ELSE [items |-> items, start_key |-> next_key(kvs[Len(kvs)]),
              done |-> Len(kvs) < PAGE_SIZE, error |-> "none"]

RECURSIVE EdgesPages(_, _, _, _, _)
\* EntityHandler::edges, the loop, every page read from the same view
EdgesPages(view, T, e, start_key, end_key) ==
    LET page == edges_page(view, T, e, start_key, end_key)
    IN  IF page.done THEN page.items
        ELSE page.items \o EdgesPages(view, T, e, page.start_key, end_key)

\* EntityHandler::edges::<T>(direction): the stream's items, in order
edges(view, T, e, direction) ==
    EdgesPages(view, T, e, relation_edge_path(T, e, Empty, direction),
                           relation_edge_path(T, e, Max, direction))

\* RelationDirection
Directions == {"Both", "In", "Out"}

\* DB::iterator, one turn of the loop: scan a page, take its last key (an empty
\* page has none: Err(NotFound)), yield the rows whose id segment starts with
\* "e-", stop after a page shorter than page_size
iterator_page(view, start_key, end_key, page_size) ==
    LET kvs == scan_keys(view, start_key, end_key, page_size)
        ids == [i \in 1..Len(kvs) |-> Nth(Split(kvs[i]), 3)[1]]
        kept == SelectSeq([i \in 1..Len(kvs) |-> i],
                          LAMBDA i : Len(ids[i]) >= 2 /\ SubSeq(ids[i], 1, 2) = EPrefix)
        items == [j \in 1..Len(kept) |->
                     [entity_id |-> SubSeq(ids[kept[j]], 3, Len(ids[kept[j]])),
                      value |-> view[kvs[kept[j]]]]]
    IN  IF kvs = <<>>
        THEN [items |-> <<>>, start_key |-> start_key, done |-> TRUE, error |-> "NotFound"]
        ELSE [items |-> items, start_key |-> next_key(kvs[Len(kvs)]),
              done |-> Len(kvs) < page_size, error |-> "none"]

RECURSIVE IteratorPages(_, _, _, _)
\* DB::iterator, the loop, every page read from the same view
IteratorPages(view, start_key, end_key, page_size) ==
    LET page == iterator_page(view, start_key, end_key, page_size)
    IN  IF page.done THEN [items |-> page.items, error |-> page.error]
        ELSE LET rest == IteratorPages(view, page.start_key, end_key, page_size)
             IN  [items |-> page.items \o rest.items, error |-> rest.error]

\* DB::iterator::<T>: the items the stream yields and the error item that ends
\* it, if any; page_size stands for the source's PAGE_SIZE
iterator(view, T, page_size) ==
    IteratorPages(view, PComponentSingle \o T \o <<Slash>>,
                  PComponentSingle \o T \o <<Slash, Tilde>>, page_size)

(***************************************************************************)
(* The inputs the model draws                                              *)
(***************************************************************************)
E1 == Entity(<<49>>)        \* db.entity("1"):  e-1
E10 == Entity(<<49, 48>>)   \* db.entity("10"): e-10
Entities == {E1, E10}
\* the id vectors of the EntityListHandlers: two entities, and one entity twice
EntityLists == {<<E1, E10>>, <<E1, E1>>}

ComponentTypes == {UserInfo, UserExtend}
UserInfos == {Component(UserInfo, n) : n \in Names}
UserExtends == {Component(UserExtend, x) : x \in Extends}
FriendRelations == {Component(FriendRelation, v) : v \in Favorabilities}
\* a single component, or a tuple (UserInfo, UserExtend)
Bundles ==
    {<<c>> : c \in UserInfos \cup UserExtends}
        \cup {<<c, d>> : c \in UserInfos, d \in UserExtends}

(***************************************************************************)
(* Sequential executions: every operation runs alone, from begin to commit *)
(***************************************************************************)
\* the record of a call: its name, the entity ids of its handle, its arguments,
\* its outcome; follows and pre are history: how the call relates to the one
\* before it, and the store before a link (kept through the unlink that undoes it)
Op(name, ids, bundle, T, other, status) ==
    [op |-> name, ids |-> ids, bundle |-> bundle, type |-> T, other |-> other,
     status |-> status, closed |-> "commit", follows |-> "other", pre |-> <<>>]

NoOp == Op("none", <<>>, <<>>, <<>>, <<>>, "Ok")

SameArgs(x, y) ==
    /\ x.ids = y.ids
    /\ x.bundle = y.bundle
    /\ x.type = y.type
    /\ x.other = y.other

\* "same": the call before was this very call and succeeded;
\* "inverse": this is the unlink of the link that just succeeded
Follows(before, op) ==
    IF before.status = "Ok" /\ before.op = op.op /\ SameArgs(before, op) THEN "same"
    ELSE IF /\ before.status = "Ok" /\ before.op = "link" /\ op.op = "unlink"
            /\ before.ids = op.ids /\ before.type = op.type /\ before.other = op.other
         THEN "inverse"
    ELSE "other"

\* o is the outcome of the call: its status and how its transaction was left
Record(before, st, op, o) ==
    [op EXCEPT !.status = o.status,
               !.closed = o.closed,
               !.follows = Follows(before, op),
               !.pre = IF op.op = "link" THEN st
                       ELSE IF Follows(before, op) = "inverse" THEN before.pre
                       ELSE <<>>]

Init ==
    /\ store = <<>>
    /\ last = NoOp
    /\ nops = 0
    /\ txns = <<>>

\* an operation returns r: its writes are committed if it succeeded, and
\* nothing is written if it failed; bound limits the calls of one behaviour
Call(r, op, bound) ==
    /\ nops < bound
    /\ nops' = nops + 1
    /\ \E o \in Outcomes(r) :
          /\ store' = IF o.status = "Ok" THEN Commit(store, o.txn) ELSE store
          /\ last' = Record(last, store, op, o)
    /\ UNCHANGED txns

Returns(r, op) == Call(r, op, MaxOps)

Attach(e, bundle) ==
    Returns(attach(store, e, bundle), Op("attach", <<e>>, bundle, <<>>, <<>>, "Ok"))

Detach(e, T) ==
    Returns(detach(store, e, T), Op("detach", <<e>>, <<>>, T, <<>>, "Ok"))

Delete(e) ==
    Returns(delete(store, e), Op("delete", <<e>>, <<>>, <<>>, <<>>, "Ok"))

Link(e, other, value) ==
    Returns(link(e, other, type_path(value), value),
            Op("link", <<e>>, <<value>>, type_path(value), <<other>>, "Ok"))

Unlink(e, other, T) ==
    Returns(unlink(e, other, T), Op("unlink", <<e>>, <<>>, T, <<other>>, "Ok"))

DeleteEdges(e, T) ==
    Returns(delete_edges(store, e, T), Op("delete_edges", <<e>>, <<>>, T, <<>>, "Ok"))

ListAttach(entity_ids, bundle) ==
    Returns(list_attach(store, entity_ids, bundle),
            Op("list_attach", entity_ids, bundle, <<>>, <<>>, "Ok"))

ListDelete(entity_ids) ==
    Returns(list_delete(store, entity_ids),
            Op("list_delete", entity_ids, <<>>, <<>>, <<>>, "Ok"))

Next ==
    \/ \E e \in Entities, bundle \in Bundles : Attach(e, bundle)
    \/ \E e \in Entities, T \in ComponentTypes : Detach(e, T)
    \/ \E e \in Entities : Delete(e)
    \/ \E e \in Entities, other \in Entities, value \in FriendRelations : Link(e, other, value)
    \/ \E e \in Entities, other \in Entities : Unlink(e, other, FriendRelation)
    \/ \E e \in Entities : DeleteEdges(e, FriendRelation)
    \/ \E entity_ids \in EntityLists, bundle \in Bundles : ListAttach(entity_ids, bundle)
    \/ \E entity_ids \in EntityLists : ListDelete(entity_ids)

Spec == Init /\ [][Next]_vars

(***************************************************************************)
(* Sequential executions of the relation handlers: link, unlink,           *)
(* delete_edges and delete on entities that hold a metadata row or not,    *)
(* followed further than Spec follows the whole interface.                 *)
(***************************************************************************)
\* bound on the number of operations of one such behaviour
MaxEdgeOps == 4

\* the bundle that gives an entity its metadata row
EdgeBundle == <<Component(UserExtend, <<120>>)>>

EdgeAttach(e) ==
    Call(attach(store, e, EdgeBundle),
         Op("attach", <<e>>, EdgeBundle, <<>>, <<>>, "Ok"), MaxEdgeOps)

EdgeLink(e, other, value) ==
    Call(link(e, other, type_path(value), value),
         Op("link", <<e>>, <<value>>, type_path(value), <<other>>, "Ok"), MaxEdgeOps)

EdgeUnlink(e, other, T) ==
    Call(unlink(e, other, T), Op("unlink", <<e>>, <<>>, T, <<other>>, "Ok"), MaxEdgeOps)

EdgeDeleteEdges(e, T) ==
    Call(delete_edges(store, e, T),
         Op("delete_edges", <<e>>, <<>>, T, <<>>, "Ok"), MaxEdgeOps)

EdgeDelete(e) ==
    Call(delete(store, e), Op("delete", <<e>>, <<>>, <<>>, <<>>, "Ok"), MaxEdgeOps)

NextEdge ==
    \/ \E e \in Entities : EdgeAttach(e)
    \/ \E e \in Entities, other \in Entities, value \in FriendRelations :
          EdgeLink(e, other, value)
    \/ \E e \in Entities, other \in Entities : EdgeUnlink(e, other, FriendRelation)
    \/ \E e \in Entities : EdgeDeleteEdges(e, FriendRelation)
    \/ \E e \in Entities : EdgeDelete(e)

SpecEdge == Init /\ [][NextEdge]_vars

(***************************************************************************)
(* Concurrent executions: optimistic transactions of the KV engine.        *)
(* begin_optimistic fixes the snapshot the transaction reads; its writes   *)
(* are buffered; commit applies the whole buffer at once, or fails when a  *)
(* key it writes was committed by another transaction since its begin.     *)
(***************************************************************************)
\* bound on the number of transactions one behaviour begins
MaxTxns == 3

\* the tasks that run operations concurrently
Tasks == {1, 2}

\* a task's transaction: where its handler stands, its call, the snapshot it
\* reads, its pending writes, the keys committed by others since it began, and
\* (history) the entities whose metadata row others have committed since then
Idle == [pc |-> "idle", call |-> NoOp, snap |-> <<>>, txn |-> <<>>, dirty |-> {},
         met |-> {}]

\* the calls the concurrent executions draw
TxnBundles ==
    {<<Component(UserInfo, <<97>>), Component(UserExtend, <<120>>)>>,
     <<Component(UserInfo, <<98>>)>>}
TxnCalls ==
    {Op("attach", <<e>>, bundle, <<>>, <<>>, "Ok") : e \in Entities, bundle \in TxnBundles}
    \cup {Op("detach", <<e>>, <<>>, T, <<>>, "Ok") : e \in Entities, T \in ComponentTypes}
    \cup {Op("delete", <<e>>, <<>>, <<>>, <<>>, "Ok") : e \in Entities}
    \cup {Op("link", <<E1>>, <<v>>, type_path(v), <<E10>>, "Ok") : v \in FriendRelations}
    \cup {Op("unlink", <<E1>>, <<>>, FriendRelation, <<E10>>, "Ok")}
    \cup {Op("delete_edges", <<E1>>, <<>>, FriendRelation, <<>>, "Ok")}

\* the handler of a call, run on the transaction's snapshot
Handler(call, snap) ==
    CASE call.op = "attach" -> attach(snap, call.ids[1], call.bundle)
      [] call.op = "detach" -> detach(snap, call.ids[1], call.type)
      [] call.op = "delete" -> delete(snap, call.ids[1])
      [] call.op = "link" -> link(call.ids[1], call.other[1], call.type, call.bundle[1])
      [] call.op = "unlink" -> unlink(call.ids[1], call.other[1], call.type)
      [] call.op = "delete_edges" -> delete_edges(snap, call.ids[1], call.type)

WrittenKeys(txn) == {txn[i].key : i \in 1..Len(txn)}
\* the entities whose metadata row a write list writes
MetadataWritten(txn) == {e \in Entities : entity_metadata_path(e) \in WrittenKeys(txn)}

InitTxn ==
    /\ store = <<>>
    /\ last = NoOp
    /\ nops = 0
    /\ txns = [t \in Tasks |-> Idle]

\* client.begin_optimistic(): the transaction reads the store as it is now
Begin(t, call) ==
    /\ txns[t].pc = "idle"
    /\ nops < MaxTxns
    /\ nops' = nops + 1
    /\ txns' = [txns EXCEPT ![t] = [pc |-> "open", call |-> call, snap |-> store,
                                    txn |-> <<>>, dirty |-> {}, met |-> {}]]
    /\ UNCHANGED <<store, last>>

\* the attach of a tuple bundle, up to the await between its first and its
\* second attach_component_in_txn: the first component's mutations are pending
RunFirst(t) ==
    /\ txns[t].pc = "open"
    /\ txns[t].call.op = "attach"
    /\ Len(txns[t].call.bundle) > 1
    /\ LET e == txns[t].call.ids[1]
           md == get_metadata(txns[t].snap, e)
           metadata == IF md = <<>> THEN DefaultMetadata ELSE md[1]
       IN  txns' = [txns EXCEPT
                      ![t].pc = "partial",
                      ![t].txn = attach_component_in_txn(
                                     e, <<>>, metadata, txns[t].call.bundle[1]).mutations]
    /\ UNCHANGED <<store, last, nops>>

\* a faulty variant of Run: the handler's writes reach the store as it issues
\* them, before the commit
Run_WriteThrough(t) ==
    /\ txns[t].pc \in {"open", "partial"}
    /\ \E r \in Outcomes(Handler(txns[t].call, txns[t].snap)) :
          IF r.status = "Ok"
          THEN /\ txns' = [txns EXCEPT ![t].pc = "ready", ![t].txn = r.txn]
               /\ store' = Commit(store, r.txn)
               /\ UNCHANGED last
          ELSE /\ txns' = [txns EXCEPT ![t] = Idle]
               /\ store' = store
               /\ last' = Record(last, store, txns[t].call, r)
    /\ UNCHANGED nops

\* the handler runs up to its commit: reads from the snapshot, buffered writes;
\* a handler that fails returns its error and writes nothing
Run(t) ==
    /\ txns[t].pc \in {"open", "partial"}
    /\ \E r \in Outcomes(Handler(txns[t].call, txns[t].snap)) :
          IF r.status = "Ok"
          THEN /\ txns' = [txns EXCEPT ![t].pc = "ready", ![t].txn = r.txn]
               /\ UNCHANGED last
          ELSE /\ txns' = [txns EXCEPT ![t] = Idle]
               /\ last' = Record(last, store, txns[t].call, r)
    /\ UNCHANGED <<store, nops>>

\* a faulty variant of CommitTxn: the engine commits without looking for
\* conflicting commits
CommitTxn_NoConflictCheck(t) ==
    /\ txns[t].pc = "ready"
    /\ store' = Commit(store, txns[t].txn)
    /\ txns' = [u \in Tasks |->
                  IF u = t THEN Idle
                  ELSE IF txns[u].pc = "idle" THEN txns[u]
                  ELSE [txns[u] EXCEPT
                           !.dirty = @ \cup WrittenKeys(txns[t].txn),
                           !.met = @ \cup MetadataWritten(txns[t].txn)]]
    /\ last' = Record(last, store, txns[t].call, Ok(txns[t].txn))
    /\ UNCHANGED nops

\* txn.commit(): every buffered write becomes visible at once, unless a written
\* key was committed by another transaction since this one began
CommitTxn(t) ==
    /\ txns[t].pc = "ready"
    /\ IF WrittenKeys(txns[t].txn) \cap txns[t].dirty # {}
       THEN /\ store' = store
            /\ txns' = [txns EXCEPT ![t] = Idle]
            /\ last' = Record(last, store, txns[t].call,
                               [TikvError EXCEPT !.closed = "commit"])
       ELSE /\ store' = Commit(store, txns[t].txn)
            /\ txns' = [u \in Tasks |->
                          IF u = t THEN Idle
                          ELSE IF txns[u].pc = "idle" THEN txns[u]
                          ELSE [txns[u] EXCEPT
                                   !.dirty = @ \cup WrittenKeys(txns[t].txn),
                                   !.met = @ \cup MetadataWritten(txns[t].txn)]]
            /\ last' = Record(last, store, txns[t].call, Ok(txns[t].txn))
    /\ UNCHANGED nops

\* the caller abandons the operation before its commit: the future is dropped
\* at an await, the transaction with it
Cancel(t) ==
    /\ txns[t].pc \in {"open", "partial", "ready"}
    /\ txns' = [txns EXCEPT ![t] = Idle]
    /\ last' = Record(last, store, txns[t].call,
                      [status |-> "Cancelled", txn |-> <<>>, closed |-> "dropped"])
    /\ UNCHANGED <<store, nops>>

NextTxn ==
    \/ \E t \in Tasks, call \in TxnCalls : Begin(t, call)
    \/ \E t \in Tasks : RunFirst(t)
    \/ \E t \in Tasks : Run(t)
    \/ \E t \in Tasks : CommitTxn(t)
    \/ \E t \in Tasks : Cancel(t)

SpecTxn == InitTxn /\ [][NextTxn]_vars

(***************************************************************************)
(* Calls of the pure functions: one call with its argument is drawn, the   *)
(* function is applied, and the call with its result is kept in last.      *)
(***************************************************************************)
\* bound on the length of the keys and ids the calls draw
MaxKeyLen == 3

\* the bytes of the drawn keys: the lowest and the highest ones, "/" and "1"
KeyBytes == {0, Slash, 49, 254, 255}
Strings(bytes, n) == UNION {[1..k -> bytes] : k \in 0..n}
\* the user ids handed to DB::entity, with "/" and without
UserIds == Strings({Slash, 49}, MaxKeyLen)

FnCall(fn, arg) == [op |-> "call", fn |-> fn, arg |-> arg, result |-> <<>>]
FnCalls ==
    {FnCall("entity", id) : id \in UserIds}
    \cup {FnCall("next_key", key) : key \in Strings(KeyBytes, MaxKeyLen)}
    \cup UNION {{FnCall("encode", [type_str |-> t, value |-> v]) : v \in IntValues(t)} :
                   t \in IntTypes}
    \cup {FnCall("not", direction) : direction \in Directions}

InitFn ==
    /\ store = <<>>
    /\ last \in FnCalls
    /\ nops = 0
    /\ txns = <<>>

Apply(fn, result) ==
    /\ last.op = "call"
    /\ last.fn = fn
    /\ last' = [last EXCEPT !.op = "return", !.result = result]
    /\ UNCHANGED <<store, nops, txns>>

ApplyEntity == Apply("entity", DB_entity(last.arg))
ApplyNextKey == Apply("next_key", next_key(last.arg))
ApplyEncode == Apply("encode", generate_numeric_encoding(last.arg.type_str, last.arg.value))
ApplyNot == Apply("not", Not(last.arg))

NextFn ==
    \/ ApplyEntity
    \/ ApplyNextKey
    \/ ApplyEncode
    \/ ApplyNot

SpecFn == InitFn /\ [][NextFn]_vars

Returned(fn) == last.op = "return" /\ last.fn = fn

(***************************************************************************)
(* A stream read page by page while operations commit: the reader polls    *)
(* iterator<T>() or edges<T>(), each page from the snapshot the first poll *)
(* opened; the writer's calls commit between any two polls.                *)
(***************************************************************************)
\* bound on the number of calls committed around one stream
MaxStreamOps == 2

StreamCall(fn, T, e, direction) == [fn |-> fn, type |-> T, e |-> e, direction |-> direction]
StreamCalls ==
    {StreamCall("iterator", UserInfo, Empty, "Both")}
    \cup {StreamCall("edges", FriendRelation, E1, d) : d \in Directions}

\* the stream before its first poll
NewStream == [pc |-> "new", call |-> StreamCall("none", <<>>, Empty, "Both"),
              snap |-> <<>>, start_key |-> <<>>, end_key |-> <<>>,
              items |-> <<>>, error |-> "none"]

InitStream ==
    /\ store = <<>>
    /\ last = NoOp
    /\ nops = 0
    /\ txns = NewStream

\* the first poll: client.snapshot(current_timestamp), the range of the scan
FirstPoll(call) ==
    /\ txns.pc = "new"
    /\ txns' = [NewStream EXCEPT
                  !.pc = "reading",
                  !.call = call,
                  !.snap = store,
                  !.start_key =
                      IF call.fn = "iterator"
                      THEN PComponentSingle \o call.type \o <<Slash>>
                      ELSE relation_edge_path(call.type, call.e, Empty, call.direction),
                  !.end_key =
                      IF call.fn = "iterator"
                      THEN PComponentSingle \o call.type \o <<Slash, Tilde>>
                      ELSE relation_edge_path(call.type, call.e, Max, call.direction)]
    /\ UNCHANGED <<store, last, nops>>

\* one turn of the stream's loop, reading view
PageOf(view) ==
    IF txns.call.fn = "iterator"
    THEN iterator_page(view, txns.start_key, txns.end_key, PAGE_SIZE)
    ELSE edges_page(view, txns.call.type, txns.call.e, txns.start_key, txns.end_key)

ReadFrom(view) ==
    /\ txns.pc = "reading"
    /\ LET page == PageOf(view)
       IN  txns' = [txns EXCEPT !.pc = IF page.done THEN "done" ELSE "reading",
                                !.start_key = page.start_key,
                                !.items = @ \o page.items,
                                !.error = page.error]
    /\ UNCHANGED <<store, last, nops>>

\* a later poll: the next page, scan and batch_get on the stream's snapshot
ReadPage == ReadFrom(txns.snap)

StreamBundle == <<Component(UserInfo, <<97>>)>>

StreamAttach(e) ==
    Call(attach(store, e, StreamBundle),
         Op("attach", <<e>>, StreamBundle, <<>>, <<>>, "Ok"), MaxStreamOps)

StreamDetach(e) ==
    Call(detach(store, e, UserInfo), Op("detach", <<e>>, <<>>, UserInfo, <<>>, "Ok"),
         MaxStreamOps)

StreamDelete(e) ==
    Call(delete(store, e), Op("delete", <<e>>, <<>>, <<>>, <<>>, "Ok"), MaxStreamOps)

StreamLink(e, other, value) ==
    Call(link(e, other, type_path(value), value),
         Op("link", <<e>>, <<value>>, type_path(value), <<other>>, "Ok"), MaxStreamOps)

NextStream ==
    \/ \E call \in StreamCalls : FirstPoll(call)
    \/ ReadPage
    \/ \E e \in Entities : StreamAttach(e)
    \/ \E e \in Entities : StreamDetach(e)
    \/ \E e \in Entities : StreamDelete(e)
    \/ \E e \in Entities, other \in Entities, value \in FriendRelations :
          StreamLink(e, other, value)

SpecStream == InitStream /\ [][NextStream]_vars

(***************************************************************************)
(* A paged scan followed turn by turn: one of the four scanning loops is   *)
(* started on the store that attach and link calls have left and reads     *)
(* page after page; pages counts the turns taken.                          *)
(***************************************************************************)
ScanCall(fn, T, e, direction, cond) ==
    [fn |-> fn, type |-> T, e |-> e, direction |-> direction, cond |-> cond]
ScanCalls ==
    {ScanCall("query_entity_id_vec", UserInfo, Empty, "Both", RangeCond(lo, hi)) :
        lo \in {<<>>, <<97>>}, hi \in {<<97>>, <<98>>}}
    \cup {ScanCall(fn, FriendRelation, E1, d, Value(<<>>)) :
             fn \in {"edges_entity_in_txn", "edges"}, d \in Directions}
    \cup {ScanCall("scan_edges_all_in_txn", <<>>, E1, "Both", Value(<<>>))}

\* the first and the last key of the range a loop scans
ScanStart(call) ==
    CASE call.fn = "query_entity_id_vec" ->
             component_index_path(call.type, FName, call.cond.start, Empty)
      [] call.fn = "scan_edges_all_in_txn" -> relation_edge_no_type_path(call.e, <<>>)
      [] OTHER -> relation_edge_path(call.type, call.e, Empty, call.direction)
ScanEnd(call) ==
    CASE call.fn = "query_entity_id_vec" ->
             component_index_path(call.type, FName, call.cond.end, Max)
      [] call.fn = "scan_edges_all_in_txn" -> relation_edge_no_type_path(call.e, <<Tilde>>)
      [] OTHER -> relation_edge_path(call.type, call.e, Max, call.direction)

\* the loop before its first turn; visited and pages are history: the keys of
\* the pages read so far and their number
NewScan == [pc |-> "new", call |-> ScanCall("none", <<>>, Empty, "Both", Value(<<>>)),
            snap |-> <<>>, start_key |-> <<>>, end_key |-> <<>>,
            visited |-> <<>>, pages |-> 0]

InitScan ==
    /\ store = <<>>
    /\ last = NoOp
    /\ nops = 0
    /\ txns = NewScan

\* the loop is entered: its snapshot or transaction, start_key and end_key
ScanBegin(call) ==
    /\ txns.pc = "new"
    /\ txns' = [NewScan EXCEPT !.pc = "scanning", !.call = call, !.snap = store,
                               !.start_key = ScanStart(call), !.end_key = ScanEnd(call)]
    /\ UNCHANGED <<store, last, nops>>

\* one turn of the loop
ScanPage ==
    /\ txns.pc = "scanning"
    /\ LET page == scan_page(txns.snap, txns.start_key, txns.end_key)
       IN  txns' = [txns EXCEPT !.pc = IF page.done THEN "done" ELSE "scanning",
                                !.start_key = page.start_key,
                                !.visited = @ \o page.kvs,
                                !.pages = @ + 1]
    /\ UNCHANGED <<store, last, nops>>

ScanAttach(e, bundle) ==
    Call(attach(store, e, bundle), Op("attach", <<e>>, bundle, <<>>, <<>>, "Ok"),
         MaxStreamOps)

NextScan ==
    \/ \E call \in ScanCalls : ScanBegin(call)
    \/ ScanPage
    \/ \E e \in Entities, n \in {<<>>, <<97>>} : ScanAttach(e, <<Component(UserInfo, n)>>)
    \/ \E e \in Entities, other \in Entities, value \in FriendRelations :
          StreamLink(e, other, value)

SpecScan == InitScan /\ [][NextScan]_vars

(***************************************************************************)
(* The read operations as calls: each returns a status and leaves the      *)
(* write list its snapshot or transaction holds when it is closed.  They   *)
(* run between attach and link calls.                                      *)
(***************************************************************************)
MaxReadOps == 3

\* a read through client.snapshot(..): a snapshot has no write operation
SnapshotRead(status) == [status |-> status, txn |-> <<>>, closed |-> "dropped"]

\* a faulty variant of edges_entity: the markers it has scanned are deleted
edges_entity_Consume(view, T, e, direction) ==
    LET found == edges_entity_in_txn(view, T, e, direction)
    IN  Ok([i \in 1..Len(found) |->
               Del(relation_edge_path(T, e, found[i].entity_id, found[i].direction))])

\* EntityHandler::edges_entity: begin_optimistic, edges_entity_in_txn (which
\* only scans), commit
edges_entity(view, T, e, direction) ==
    LET found == edges_entity_in_txn(view, T, e, direction)
    IN  Ok(<<>>)

ReadFns == {"get", "metadata", "edges", "edges_entity", "entity", "single",
            "all", "count", "list", "iterator"}

ReadCalls ==
    {ScanCall(fn, T, e, "Both", Value(<<>>)) :
        fn \in {"get"}, T \in ComponentTypes, e \in Entities}
    \cup {ScanCall("metadata", <<>>, e, "Both", Value(<<>>)) : e \in Entities}
    \cup {ScanCall(fn, FriendRelation, e, d, Value(<<>>)) :
             fn \in {"edges", "edges_entity"}, e \in Entities, d \in Directions}
    \cup {ScanCall(fn, UserInfo, Empty, "Both", cond) :
             fn \in {"entity", "single", "all", "count", "list"},
             cond \in {Value(<<97>>), RangeCond(<<>>, <<98>>)}}
    \cup {ScanCall("iterator", T, Empty, "Both", Value(<<>>)) : T \in ComponentTypes}

\* what a read call returns and leaves behind
ReadHandler(call, view) ==
    CASE call.fn = "get" -> SnapshotRead("Ok")
      [] call.fn = "metadata" ->
             SnapshotRead(IF get_metadata(view, call.e) = <<>> THEN "NotFound" ELSE "Ok")
      [] call.fn = "edges" -> SnapshotRead("Ok")
      [] call.fn = "edges_entity" -> edges_entity(view, call.type, call.e, call.direction)
      [] call.fn = "entity" -> SnapshotRead(entity(view, call.type, FName, call.cond).status)
      [] call.fn = "single" -> SnapshotRead(single(view, call.type, FName, call.cond).status)
      [] call.fn = "iterator" ->
             SnapshotRead(IF iterator(view, call.type, PAGE_SIZE).error = "none"
                          THEN "Ok" ELSE "NotFound")
      [] OTHER -> SnapshotRead("Ok")

InitRead ==
    /\ store = <<>>
    /\ last = NoOp
    /\ nops = 0
    /\ txns = <<>>

Read(call) ==
    Call(ReadHandler(call, store),
         Op(call.fn, <<call.e>>, <<>>, call.type, <<>>, "Ok"), MaxReadOps)

ReadAttach(e, bundle) ==
    Call(attach(store, e, bundle), Op("attach", <<e>>, bundle, <<>>, <<>>, "Ok"),
         MaxReadOps)

ReadLink(e, other, value) ==
    Call(link(e, other, type_path(value), value),
         Op("link", <<e>>, <<value>>, type_path(value), <<other>>, "Ok"), MaxReadOps)

NextRead ==
    \/ \E call \in ReadCalls : Read(call)
    \/ \E e \in Entities, n \in {<<>>, <<97>>} : ReadAttach(e, <<Component(UserInfo, n)>>)
    \/ \E e \in Entities, other \in Entities, value \in FriendRelations :
          ReadLink(e, other, value)

SpecRead == InitRead /\ [][NextRead]_vars

(***************************************************************************)
(* intern_string called from several threads.  txns holds the process-wide *)
(* STRING_CACHE (entries are leaked allocations: an address and a          *)
(* content), the readers and the writer of its RwLock, each thread's       *)
(* position in its call, and the history of returned entries; nops counts  *)
(* the allocations leaked so far.                                          *)
(***************************************************************************)
Threads == {1, 2, 3}
MaxInternCalls == 4
InternStrings == {<<97>>, <<98>>}

NoEntry == [addr |-> 0, content |-> <<>>]
\* via is history: which scan, or the leak, gave the call its result
IdleThread == [pc |-> "idle", s |-> <<>>, result |-> NoEntry, via |-> "none"]

\* the scan `for &cached in cache.iter() { if cached == s { return cached } }`:
\* the entries a scan can return
Cached(cache, s) == {cached \in cache : cached.content = s}

\* HashSet::insert of a &str: an entry equal in content to one already held is
\* not inserted
HashSetInsert(cache, entry) ==
    IF \E cached \in cache : cached.content = entry.content THEN cache
    ELSE cache \cup {entry}

\* a faulty variant of the write-locked part: no second scan before leaking
intern_write_NoRecheck(cache, s, addr) ==
    LET leaked == [addr |-> addr, content |-> s]
    IN  {[cache |-> HashSetInsert(cache, leaked), result |-> leaked, leaks |-> 1]}

\* intern_string under the write lock: the scan is repeated, and only when it
\* finds nothing is the string leaked and inserted; the possible returns
intern_write(cache, s, addr) ==
    IF Cached(cache, s) # {}
    THEN {[cache |-> cache, result |-> cached, leaks |-> 0] : cached \in Cached(cache, s)}
    ELSE LET leaked == [addr |-> addr, content |-> s]
         IN  {[cache |-> HashSetInsert(cache, leaked), result |-> leaked, leaks |-> 1]}

InitIntern ==
    /\ store = <<>>
    /\ last = NoOp
    /\ nops = 0
    /\ txns = [cache |-> {}, readers |-> {}, writer |-> 0, calls |-> 0,
               threads |-> [t \in Threads |-> IdleThread],
               returned |-> {}]

\* a thread calls intern_string(s)
InternCall(t, s) ==
    /\ txns.threads[t].pc = "idle"
    /\ txns.calls < MaxInternCalls
    /\ txns' = [txns EXCEPT !.calls = @ + 1,
                            !.threads[t] = [IdleThread EXCEPT !.pc = "start", !.s = s]]
    /\ UNCHANGED <<store, last, nops>>

\* STRING_CACHE.read(): granted while no thread holds the write lock
ReadLock(t) ==
    /\ txns.threads[t].pc = "start"
    /\ txns.writer = 0
    /\ txns' = [txns EXCEPT !.readers = @ \cup {t}, !.threads[t].pc = "reading"]
    /\ UNCHANGED <<store, last, nops>>

\* the scan under the read lock; the guard is dropped on return and at the end
\* of the block
ReadScan(t) ==
    /\ txns.threads[t].pc = "reading"
    /\ LET found == Cached(txns.cache, txns.threads[t].s)
       IN  \/ /\ found = {}
              /\ txns' = [txns EXCEPT !.readers = @ \ {t}, !.threads[t].pc = "miss"]
           \/ \E cached \in found :
                 txns' = [txns EXCEPT !.readers = @ \ {t},
                                      !.threads[t].pc = "done",
                                      !.threads[t].result = cached,
                                      !.threads[t].via = "read"]
    /\ UNCHANGED <<store, last, nops>>

\* STRING_CACHE.write(): granted while no thread holds the lock
WriteLock(t) ==
    /\ txns.threads[t].pc = "miss"
    /\ txns.writer = 0
    /\ txns.readers = {}
    /\ txns' = [txns EXCEPT !.writer = t, !.threads[t].pc = "writing"]
    /\ UNCHANGED <<store, last, nops>>

\* the write-locked part; the guard is dropped on return
WriteScan(t) ==
    /\ txns.threads[t].pc = "writing"
    /\ \E r \in intern_write(txns.cache, txns.threads[t].s, nops + 1) :
          /\ txns' = [txns EXCEPT !.cache = r.cache,
                                  !.writer = 0,
                                  !.threads[t].pc = "done",
                                  !.threads[t].result = r.result,
                                  !.threads[t].via = IF r.leaks = 1 THEN "leak"
                                                     ELSE "write"]
          /\ nops' = nops + r.leaks
    /\ UNCHANGED <<store, last>>

\* the call returns its entry to the caller
InternReturn(t) ==
    /\ txns.threads[t].pc = "done"
    /\ txns' = [txns EXCEPT !.returned = @ \cup {[s |-> txns.threads[t].s,
                                                  entry |-> txns.threads[t].result]},
                            !.threads[t] = IdleThread]
    /\ UNCHANGED <<store, last, nops>>

NextIntern ==
    \/ \E t \in Threads, s \in InternStrings : InternCall(t, s)
    \/ \E t \in Threads : ReadLock(t)
    \/ \E t \in Threads : ReadScan(t)
    \/ \E t \in Threads : WriteLock(t)
    \/ \E t \in Threads : WriteScan(t)
    \/ \E t \in Threads : InternReturn(t)

SpecIntern == InitIntern /\ [][NextIntern]_vars

(***************************************************************************)
(* Reading the rows of a store                                             *)
(***************************************************************************)
IsPrefix(p, k) == Len(k) >= Len(p) /\ SubSeq(k, 1, Len(p)) = p

\* component/index/T/f/v/e rows, component/single/T/e rows, relation/edge rows
IndexRows(st) == {k \in DOMAIN st : IsPrefix(PComponentIndex, k)}
PayloadRows(st) == {k \in DOMAIN st : IsPrefix(PComponentSingle, k)}
EdgeRows(st) == {k \in DOMAIN st : IsPrefix(PRelationEdge, k)}

\* the parts of an index row's key component/index/T/f/v/e: the entity text is
\* the last segment, the value (which may hold a Slash) lies between f and e
IndexRowEntity(k) == Split(k)[Len(Split(k))]
IndexRowValue(k) ==
    LET s == Split(k)
    IN  SubSeq(k, Len(PComponentIndex) + Len(s[3]) + Len(s[4]) + 3,
                  Len(k) - Len(IndexRowEntity(k)) - 1)

\* the index rows of (T, f) that belong to entity e, whatever their value
IndexRowsOf(st, T, f, e) ==
    {k \in IndexRows(st) :
        LET s == Split(k) IN s[3] = T /\ s[4] = f /\ IndexRowEntity(k) = EntityText(e)}

\* the encoded value of indexed field f in a payload; <<>> stands for None
EncodedField(payload, f) == FieldsGet(indexed_fields(payload), f)

\* e's text is one of the "/"-separated segments of key k
MentionsEntity(k, e) == \E i \in 1..Len(Split(k)) : Split(k)[i] = EntityText(e)

(***************************************************************************)
(* Properties                                                              *)
(***************************************************************************)

\* C1 (index-to-payload consistency): for every index row
\* component/index/T/f/v/e of the store, the payload row component/single/T/e
\* is present and its field f encodes to v.
C1_IndexPayloadConsistency ==
    \A k \in IndexRows(store) :
        LET s == Split(k)
            pk == component_data_path(s[3], new_raw(IndexRowEntity(k)))
        IN  /\ pk \in DOMAIN store
            /\ EncodedField(store[pk], s[4]) = <<IndexRowValue(k)>>

\* C2 (metadata-to-index consistency): for every entity e and every (T, f) whose
\* recorded value prev in e's metadata is non-empty, the index row
\* component/index/T/f/prev/e is present and is the only index row of (T, f, e).
C2_MetadataIndexConsistency ==
    \A e \in Entities :
        LET md == get_metadata(store, e)
        IN  md # <<>> =>
                \A T \in DOMAIN md[1].component_archetypes :
                    LET index_keys == md[1].component_archetypes[T].index_keys
                    IN  \A f \in DOMAIN index_keys :
                            index_keys[f] # <<>> =>
                                IndexRowsOf(store, T, f, e)
                                    = {component_index_path(T, f, index_keys[f], e)}

C4_EdgeTriad ==
    \A k \in EdgeRows(store) :
        LET s == Split(k)
        IN  s[5] = SIn =>
                /\ relation_edge_path(s[4], new_raw(s[6]), new_raw(s[3]), "Out") \in DOMAIN store
                /\ relation_data_path(s[4], new_raw(s[3]), new_raw(s[6])) \in DOMAIN store

\* C5 (delete completeness): once delete() on e has succeeded, no key of the
\* store has e's id as a segment.
C5_DeleteCompleteness ==
    (last.op = "delete" /\ last.status = "Ok") =>
        \A k \in DOMAIN store : ~MentionsEntity(k, last.ids[1])

\* the three rows of an edge; those of the edge the last link / unlink call names
Triad(T, e, other) ==
    {relation_edge_path(T, e, other, "In"),
     relation_edge_path(T, other, e, "Out"),
     relation_data_path(T, e, other)}
LastTriad == Triad(last.type, last.ids[1], last.other[1])

\* the rows a committed call answers for, read in the store st its commit left;
\* snap is the snapshot the call's transaction read
Visible(call, snap, st) ==
    LET e == call.ids[1]
    IN  CASE call.op = "attach" ->
                /\ entity_metadata_path(e) \in DOMAIN st
                /\ \A i \in 1..Len(call.bundle) :
                      LET v == call.bundle[i]
                          T == type_path(v)
                          archetypes == st[entity_metadata_path(e)].component_archetypes
                      IN  /\ component_data_path(T, e) \in DOMAIN st
                          /\ (\A j \in (i + 1)..Len(call.bundle) :
                                  type_path(call.bundle[j]) # T)
                                => st[component_data_path(T, e)] = v
                          /\ T \in DOMAIN archetypes
                          /\ \A f \in Range(indexed_field_names(T)) :
                                /\ archetypes[T].index_keys[f] = EncodedField(v, f)[1]
                                /\ component_index_path(T, f, EncodedField(v, f)[1], e)
                                      \in DOMAIN st
          [] call.op = "detach" ->
                /\ component_data_path(call.type, e) \notin DOMAIN st
                /\ indexed_field_names(call.type) # <<>> =>
                      /\ entity_metadata_path(e) \in DOMAIN st
                      /\ call.type \notin
                            DOMAIN st[entity_metadata_path(e)].component_archetypes
          [] call.op = "delete" ->
                /\ entity_metadata_path(e) \notin DOMAIN st
                /\ \A T \in DOMAIN snap[entity_metadata_path(e)].component_archetypes :
                      component_data_path(T, e) \notin DOMAIN st
          [] call.op = "link" ->
                /\ Triad(call.type, e, call.other[1]) \subseteq DOMAIN st
                /\ st[relation_data_path(call.type, e, call.other[1])] = call.bundle[1]
          [] call.op = "unlink" -> Triad(call.type, e, call.other[1]) \cap DOMAIN st = {}
          [] OTHER -> TRUE

\* C6 (atomic visibility): the store changes only by the commit of one
\* transaction, and the state that commit leaves holds the whole outcome of its
\* operation (attach: metadata, payloads and index rows of every component of
\* the bundle; detach; delete; link and unlink: the three rows of the edge), so
\* no snapshot taken between two steps holds only a part of an operation's rows.
C6_AtomicVisibility ==
    [][store' # store =>
        \E t \in Tasks :
            /\ txns[t].pc = "ready"
            /\ txns'[t].pc = "idle"
            /\ \A u \in Tasks \ {t} : txns'[u].pc = txns[u].pc
            /\ store' = Commit(store, Handler(txns[t].call, txns[t].snap).txn)
            /\ Visible(txns[t].call, txns[t].snap, store')]_vars

\* C6, witness: the attach of a two-component bundle has committed while another
\* task's transaction, begun on an older snapshot, is still open
C6_Witness ==
    /\ last.op = "attach" /\ last.status = "Ok" /\ Len(last.bundle) = 2
    /\ \E t \in Tasks : txns[t].pc # "idle" /\ txns[t].snap # store
    /\ \E e \in Entities :
          /\ last.ids = <<e>>
          /\ {entity_metadata_path(e), component_data_path(UserInfo, e),
              component_data_path(UserExtend, e)} \subseteq DOMAIN store

\* two successive successful attach calls of a single component of the same
\* type on the same entity
Reattach ==
    /\ last.op = "attach" /\ last.status = "Ok" /\ Len(last.bundle) = 1
    /\ last'.op = "attach" /\ last'.status = "Ok" /\ Len(last'.bundle) = 1
    /\ last'.ids = last.ids
    /\ type_path(last'.bundle[1]) = type_path(last.bundle[1])

\* C7 (re-attach refresh): attach(e, v1) followed by attach(e, v2) of the same
\* type T overwrites the payload with v2 and, for every indexed field f whose
\* encoded value differs between v1 and v2, leaves no index row of v1's value
\* while the index row of v2's value exists.
C7_ReattachRefresh ==
    [][Reattach =>
        LET e == last.ids[1]
            v1 == last.bundle[1]
            v2 == last'.bundle[1]
            T == type_path(v2)
        IN  /\ component_data_path(T, e) \in DOMAIN store'
            /\ store'[component_data_path(T, e)] = v2
            /\ \A f \in Range(indexed_field_names(T)) :
                  EncodedField(v1, f) # EncodedField(v2, f) =>
                      /\ component_index_path(T, f, EncodedField(v1, f)[1], e)
                            \notin DOMAIN store'
                      /\ component_index_path(T, f, EncodedField(v2, f)[1], e)
                            \in DOMAIN store']_vars

\* C8 (attach idempotence): an attach(e, v) that follows the same successful
\* attach(e, v) leaves every key and every value of the store as it was.
C8_AttachIdempotent ==
    [][(/\ last.op = "attach" /\ last.status = "Ok"
        /\ last'.op = "attach" /\ last'.status = "Ok"
        /\ SameArgs(last, last'))
       => store' = store]_vars

\* C8, witness: the second of two identical attach calls has returned, its batch
\* held a DEL and a PUT of the same index key, and that index row is present
C8_Witness ==
    /\ last.op = "attach" /\ last.status = "Ok" /\ last.follows = "same"
    /\ \E i \in 1..Len(last.bundle) :
        LET v == last.bundle[i]
        IN  /\ type_path(v) = UserInfo
            /\ v.data # <<>>
            /\ component_index_path(UserInfo, FName, encode_name(v.data), last.ids[1])
                   \in DOMAIN store

\* an unlink has just undone the link that preceded it
LinkThenUnlink == last.op = "unlink" /\ last.status = "Ok" /\ last.follows = "inverse"

\* C9 (link/unlink inverse), as claimed: A.link<T>(B, p) followed by
\* A.unlink<T>(B) leaves the store with exactly the key set it had before the link.
C9_LinkUnlinkInverse == LinkThenUnlink => DOMAIN store = DOMAIN last.pre

\* C9, amended: A.link<T>(B, p) followed by A.unlink<T>(B) leaves the store with
\* the key set it had before the link less the three rows of the edge A->B of
\* type T (so exactly the pre-link key set when none of them was present).
C9_LinkUnlinkRemovesTriad ==
    LinkThenUnlink => DOMAIN store = DOMAIN last.pre \ LastTriad

\* C9, witness: link then unlink has run from a state that held other rows
C9_Witness == LinkThenUnlink /\ DOMAIN last.pre # {} /\ DOMAIN store = DOMAIN last.pre

\* the bounds a Filter is built with
FilterBounds == Names

\* C10 (range scan soundness): for every Range(lo, hi) on UserInfo.name, all()
\* returns the payload rows of exactly the entities whose current encoded name
\* satisfies lo <= name < hi.
C10_RangeScanSound ==
    \A lo \in FilterBounds, hi \in FilterBounds :
        LET rows == all(store, UserInfo, FName, RangeCond(lo, hi))
            matching ==
                {e \in Entities :
                    /\ component_data_path(UserInfo, e) \in DOMAIN store
                    /\ LET v == EncodedField(store[component_data_path(UserInfo, e)], FName)[1]
                       IN  KeyLeq(lo, v) /\ KeyLess(v, hi)}
        IN  {rows[i].key : i \in 1..Len(rows)}
                = {component_data_path(UserInfo, e) : e \in matching}

\* the last call was detach::<T>() on an entity and it returned Ok
DetachOk == last.op = "detach" /\ last.status = "Ok"

\* C11 (detach postcondition, rows): after a successful detach<T>() on e the
\* payload row component/single/T/e is absent and no index row of (T, f, e)
\* remains, for every indexed field f of T and whatever its value.
C11_DetachRemovesRows ==
    DetachOk =>
        /\ component_data_path(last.type, last.ids[1]) \notin DOMAIN store
        /\ \A f \in Range(indexed_field_names(last.type)) :
              IndexRowsOf(store, last.type, f, last.ids[1]) = {}

\* C12 (detach postcondition, metadata): after a successful detach<T>() on e,
\* e's metadata holds no archetype entry for T, whether T has indexed fields or not.
C12_DetachRemovesArchetype ==
    DetachOk =>
        LET md == get_metadata(store, last.ids[1])
        IN  md # <<>> => last.type \notin DOMAIN md[1].component_archetypes

\* a step that is a detach / a delete call on an entity without metadata row
DetachStep == nops' # nops /\ last'.op = "detach"
DeleteStep == nops' # nops /\ last'.op = "delete"
NoMetadata(e) == get_metadata(store, e) = <<>>

\* C13 (detach without metadata): detach<T>() of a type with indexed fields on an
\* entity that has no metadata row returns NotFound, rolls its transaction back
\* and leaves every key and value of the store as it was.
C13_DetachNoMetadata ==
    [][(DetachStep /\ indexed_field_names(last'.type) # <<>> /\ NoMetadata(last'.ids[1]))
       => /\ last'.status = "NotFound"
          /\ last'.closed = "rollback"
          /\ store' = store]_vars

\* C13, witness: such a detach has returned NotFound after a rollback, on a
\* store that holds rows of another entity
C13_Witness ==
    /\ last.op = "detach" /\ last.status = "NotFound" /\ last.closed = "rollback"
    /\ indexed_field_names(last.type) # <<>>
    /\ NoMetadata(last.ids[1])
    /\ store # <<>>

\* C14 (rollback on every NotFound): a detach or a delete that returns NotFound
\* has rolled its transaction back; none leaves it neither committed nor
\* rolled back.
C14_NotFoundRollsBack ==
    (last.op \in {"detach", "delete"} /\ last.status = "NotFound")
        => last.closed = "rollback"

\* C15 (delete without metadata): delete() on an entity that has no metadata row
\* returns NotFound and leaves the store as it was, the entity's edge markers and
\* edge payloads included.
C15_DeleteNoMetadata ==
    [][(DeleteStep /\ NoMetadata(last'.ids[1]))
       => /\ last'.status = "NotFound"
          /\ store' = store]_vars

\* C15, witness: delete() has returned NotFound on an entity without metadata
\* whose edge rows, written by link, are in the store
C15_Witness ==
    /\ last.op = "delete" /\ last.status = "NotFound"
    /\ NoMetadata(last.ids[1])
    /\ \E k \in EdgeRows(store) : Split(k)[3] = EntityText(last.ids[1])
    /\ \E other \in Entities :
          Triad(FriendRelation, last.ids[1], other) \subseteq DOMAIN store

\* a step that is a successful delete_edges call
DeleteEdgesOkStep == nops' # nops /\ last'.op = "delete_edges" /\ last'.status = "Ok"

\* the edges between A and B, in either direction, that link has written whole
LinkedTriads(st, T, A, B) ==
    {tri \in {Triad(T, A, B), Triad(T, B, A)} : tri \subseteq DOMAIN st}

\* C16 (delete_edges postcondition): after a successful A.delete_edges<T>(), of
\* every edge of type T that was incident to A, with A as source or as target,
\* none of the three rows remains: A's marker, the other endpoint's mirror
\* marker, the relation/data payload row.
C16_DeleteEdgesRemovesTriads ==
    [][DeleteEdgesOkStep =>
        \A B \in Entities :
            \A tri \in LinkedTriads(store, last'.type, last'.ids[1], B) :
                tri \cap DOMAIN store' = {}]_vars

\* the last call was A.link<T>(B, p), it succeeded, and the store held no
\* relation row before it
OnlyLink ==
    /\ last.op = "link" /\ last.status = "Ok"
    /\ \A k \in DOMAIN last.pre : ~IsPrefix(PRelationEdge, k) /\ ~IsPrefix(PRelationData, k)

\* C17 (edges after link): after A.link<T>(B, p) and no other edge operation,
\* B.edges<T>(In) yields exactly one item, (A, Out, p).
C17_EdgesAfterLink ==
    OnlyLink =>
        edges(store, last.type, last.other[1], "In")
            = <<[entity_id |-> last.ids[1], direction |-> "Out", value |-> last.bundle[1]]>>

\* a step that is a successful delete call
DeleteOkStep == DeleteStep /\ last'.status = "Ok"

\* C18 (cascade delete of edges): a successful A.delete() removes A's metadata
\* row and, of every edge that A.link<T>(B, p) or B.link<T>(A, p) has written,
\* all three rows, the marker stored under B included; afterwards no edges<T>
\* enumeration on B, in any direction, yields an item for A.
C18_CascadeDelete ==
    [][DeleteOkStep =>
        LET A == last'.ids[1]
        IN  /\ entity_metadata_path(A) \notin DOMAIN store'
            /\ \A B \in Entities \ {A} :
                  \A tri \in LinkedTriads(store, FriendRelation, A, B) :
                      /\ tri \cap DOMAIN store' = {}
                      /\ \A d \in Directions :
                            LET items == edges(store', FriendRelation, B, d)
                            IN  \A i \in 1..Len(items) : items[i].entity_id # A]_vars

\* the page sizes the iterator is run with
MaxPageSize == 3
PageSizes == 1..MaxPageSize

\* the payload rows of type T stored under an "e-" entity id
EntityPayloadRows(st, T) ==
    {k \in PayloadRows(st) :
        LET s == Split(k)
        IN  s[3] = T /\ Len(s[4]) >= 2 /\ SubSeq(s[4], 1, 2) = EPrefix}

\* C19 (iterator completeness): for every store content and every page size,
\* iterator<T>() yields each payload row of type T stored under an e-prefixed id
\* exactly once: none skipped, none repeated, wherever the page boundaries fall.
C19_IteratorComplete ==
    \A T \in ComponentTypes, p \in PageSizes :
        LET items == iterator(store, T, p).items
        IN  /\ Len(items) = Cardinality(EntityPayloadRows(store, T))
            /\ {component_data_path(T, Entity(items[i].entity_id)) : i \in 1..Len(items)}
                  = EntityPayloadRows(store, T)

\* C20 (iterator end on an empty page): when the number of payload rows of type
\* T is zero or an exact multiple of the page size, iterator<T>() ends normally
\* after all rows and yields no error item.
C20_IteratorEndsNormally ==
    \A T \in ComponentTypes, p \in PageSizes :
        LET n == Cardinality({k \in PayloadRows(store) : Split(k)[3] = T})
            r == iterator(store, T, p)
        IN  n % p = 0 => r.error = "none" /\ Len(r.items) = n

(***************************************************************************)
(* C21: an equality query on UserInfo.name = s fails with NotFound exactly *)
(* when no entity has a UserInfo whose name encodes to s; otherwise        *)
(* entity() is a handle to an entity that has one and single() is that     *)
(* entity's current UserInfo payload.                                      *)
(***************************************************************************)
\* the entities whose current payload of T has field f encoded as s
Holders(st, T, f, s) ==
    {e \in Entities : /\ get(st, T, e) # <<>>
                      /\ EncodedField(get(st, T, e)[1], f) = <<s>>}

C21_EqualityQuery ==
    \A s \in Names :
        LET holders == Holders(store, UserInfo, FName, s)
            found == entity(store, UserInfo, FName, Value(s))
            one == single(store, UserInfo, FName, Value(s))
        IN  /\ (found.status = "NotFound") <=> (holders = {})
            /\ (one.status = "NotFound") <=> (holders = {})
            /\ holders # {} =>
                  /\ found.status = "Ok" /\ found.entity_id \in holders
                  /\ one.status = "Ok"
                  /\ one.value = get(store, UserInfo, found.entity_id)[1]

(***************************************************************************)
(* C22: get<T>() on e is Some(v) exactly when the most recent successful   *)
(* operation affecting (e, T) was an attach of v, and None when there was  *)
(* none or it was detach<T>() or delete().  Stated step by step: in the    *)
(* initial store every get is None, and every call changes what get        *)
(* returns as the call's own effect on (e, T) says.                        *)
(***************************************************************************)
\* the component of type T a bundle attaches (the last one of that type);
\* <<>> when the bundle holds none
BundleValue(bundle, T) ==
    LET I == {i \in 1..Len(bundle) : type_path(bundle[i]) = T}
    IN  IF I = {} THEN <<>>
        ELSE <<bundle[CHOOSE i \in I : \A j \in I : j <= i]>>

\* what get<T>() on e returns after call op, given what it returned before
GetAfter(op, before, T, e) ==
    IF op.status # "Ok" \/ e \notin Range(op.ids) THEN before
    ELSE IF op.op \in {"attach", "list_attach"}
         THEN IF BundleValue(op.bundle, T) # <<>> THEN BundleValue(op.bundle, T)
              ELSE before
    ELSE IF op.op = "detach" THEN IF op.type = T THEN <<>> ELSE before
    ELSE IF op.op \in {"delete", "list_delete"} THEN <<>>
    ELSE before

C22_GetRoundTrip ==
    [][nops' # nops =>
          \A e \in Entities, T \in ComponentTypes :
              /\ nops = 0 => get(store, T, e) = <<>>
              /\ get(store', T, e) = GetAfter(last', get(store, T, e), T, e)]_vars

(***************************************************************************)
(* C23: an operation that is abandoned or fails before its commit succeeds *)
(* (between the per-component calls of a tuple bundle included) leaves the *)
(* committed store as it was: the store changes in no step but the         *)
(* successful commit of a transaction.                                     *)
(***************************************************************************)
\* task t's commit succeeds in this step
CommitStep(t) ==
    /\ txns[t].pc = "ready"
    /\ txns'[t].pc = "idle"
    /\ last'.status = "Ok"

\* task t's operation ends without a successful commit in this step
FailStep(t) ==
    /\ txns[t].pc # "idle"
    /\ txns'[t].pc = "idle"
    /\ last'.status # "Ok"

C23_NoEffectBeforeCommit ==
    [][/\ (\A t \in Tasks : ~CommitStep(t)) => store' = store
       /\ \A t \in Tasks : FailStep(t) => store' = store]_vars

\* the attach of a tuple bundle was abandoned, in a store that holds rows of
\* other calls and none of the abandoned one
C23_Witness ==
    /\ last.op = "attach" /\ last.status = "Cancelled" /\ Len(last.bundle) = 2
    /\ store # <<>>
    /\ \A i \in 1..2 :
          component_data_path(type_path(last.bundle[i]), last.ids[1]) \notin DOMAIN store

(***************************************************************************)
(* C24: constructing an entity handle from a user id that contains "/"     *)
(* fails, so that no handle and no key is built from such an id.           *)
(***************************************************************************)
C24_SlashIdRejected ==
    (Returned("entity") /\ Slash \in Range(last.arg)) =>
        /\ last.result.status # "Ok"
        /\ Slash \notin Range(EntityText(last.result.entity_id))

(***************************************************************************)
(* C25: for every integer type and all its values a, b the encodings have  *)
(* the type's fixed width (3, 5, 10, 20 digits for 8, 16, 32, 64 bits),    *)
(* a < b exactly when encode(a) sorts before encode(b), and the minimum of *)
(* a signed type encodes to zeros only.                                    *)
(***************************************************************************)
EncodedWidth(type_str) ==
    CASE type_str \in {"u8", "i8"} -> 3
      [] type_str \in {"u16", "i16"} -> 5
      [] type_str \in {"u32", "i32"} -> 10
      [] type_str \in {"u64", "i64"} -> 20

C25_OrderPreservingEncoding ==
    Returned("encode") =>
        LET t == last.arg.type_str
            a == last.arg.value
        IN  /\ Len(last.result) = EncodedWidth(t)
            /\ \A i \in 1..Len(last.result) : last.result[i] \in 48..57
            /\ \A b \in IntValues(t) :
                  IntLess(a, b) <=> KeyLess(last.result, generate_numeric_encoding(t, b))
            /\ (Signed(t) /\ a = [neg |-> TRUE, mag |-> MinMag(t)]) =>
                  \A i \in 1..Len(last.result) : last.result[i] = 48

\* the minimum of i64 has been encoded
C25_Witness ==
    /\ Returned("encode")
    /\ last.arg = [type_str |-> "i64", value |-> [neg |-> TRUE, mag |-> <<32768, 0, 0, 0>>]]
    /\ Len(last.result) = 20

(***************************************************************************)
(* C26: next_key(k) is the immediate successor of k: for a key k with a    *)
(* byte below 0xFF, next_key(k) > k and no byte string lies strictly       *)
(* between k and next_key(k).                                              *)
(***************************************************************************)
C26_NextKeyImmediateSuccessor ==
    (Returned("next_key") /\ \E i \in 1..Len(last.arg) : last.arg[i] < 255) =>
        /\ KeyLess(last.arg, last.result)
        /\ \A k \in Strings(KeyBytes, Len(last.arg) + 1) :
              ~(KeyLess(last.arg, k) /\ KeyLess(k, last.result))

(***************************************************************************)
(* C27: attach, detach of a type with indexed fields and delete on the     *)
(* same entity all read and write the entity's metadata row, so of two     *)
(* such transactions that overlap in time at most one commits and the      *)
(* other fails with an engine error; the metadata invariant that holds     *)
(* after sequential execution (C3) holds after every interleaving too.     *)
(***************************************************************************)
\* the calls that read and write the metadata row of their entity
MetaCall(call) ==
    \/ call.op \in {"attach", "delete"}
    \/ call.op = "detach" /\ indexed_field_names(call.type) # <<>>

\* task t's transaction overlaps a committed one that wrote its entity's metadata
Overlapped(t) ==
    /\ txns[t].pc # "idle"
    /\ MetaCall(txns[t].call)
    /\ txns[t].call.ids[1] \in txns[t].met

ItemRow(call, item) ==
    IF call.fn = "iterator" THEN component_data_path(call.type, Entity(item.entity_id))
    ELSE IF item.direction = "In" THEN relation_data_path(call.type, call.e, item.entity_id)
    ELSE relation_data_path(call.type, item.entity_id, call.e)

\* the rows of the stream's range in view: payload rows of T for iterator, the
\* payload rows of e's markers for edges
StreamRows(call, view) ==
    IF call.fn = "iterator" THEN EntityPayloadRows(view, call.type)
    ELSE {k \in DOMAIN view :
             \E m \in DOMAIN view :
                 /\ KeyLeq(relation_edge_path(call.type, call.e, Empty, call.direction), m)
                 /\ KeyLess(m, relation_edge_path(call.type, call.e, Max, call.direction))
                 /\ k = IF ParseEdge(m).direction = "In"
                        THEN relation_data_path(call.type, call.e, ParseEdge(m).entity_id)
                        ELSE relation_data_path(call.type, ParseEdge(m).entity_id, call.e)}

\* every item of the stream is a row of view, with the value it has there
YieldedFrom(view) ==
    \A i \in 1..Len(txns.items) :
        /\ ItemRow(txns.call, txns.items[i]) \in DOMAIN view
        /\ view[ItemRow(txns.call, txns.items[i])] = txns.items[i].value

C28_SnapshotStability ==
    /\ YieldedFrom(txns.snap)
    /\ txns.pc = "done" =>
          StreamRows(txns.call, txns.snap)
              \subseteq {ItemRow(txns.call, txns.items[i]) : i \in 1..Len(txns.items)}

\* the part of C28 that is about the snapshot alone: what the stream has
\* yielded once it is done is what the loop yields on the first poll's snapshot,
\* whatever was committed in between
StreamOfFirstPoll ==
    /\ YieldedFrom(txns.snap)
    /\ txns.pc = "done" =>
          txns.items = IF txns.call.fn = "iterator"
                       THEN iterator(txns.snap, txns.call.type, PAGE_SIZE).items
                       ELSE edges(txns.snap, txns.call.type, txns.call.e,
                                  txns.call.direction)

(***************************************************************************)
(* C29: a successful EntityListHandler::attach(bundle) leaves exactly the  *)
(* store that EntityHandler::attach(bundle) on each listed entity, one     *)
(* call after the other, would leave (payload, index and metadata rows),   *)
(* and it does so by one commit.                                           *)
(***************************************************************************)
RECURSIVE AttachOneByOne(_, _, _)
\* the store after EntityHandler::attach(bundle) on each entity of the list,
\* each call committed before the next begins
AttachOneByOne(st, entity_ids, bundle) ==
    IF entity_ids = <<>> THEN st
    ELSE AttachOneByOne(Commit(st, attach(st, Head(entity_ids), bundle).txn),
                        Tail(entity_ids), bundle)

ListAttachOkStep == nops' # nops /\ last'.op = "list_attach" /\ last'.status = "Ok"

C29_ListAttachRefinesAttach ==
    [][ListAttachOkStep =>
          /\ store' = AttachOneByOne(store, last'.ids, last'.bundle)
          /\ store' = Commit(store, list_attach(store, last'.ids, last'.bundle).txn)]_vars

\* a list attach over two entities has succeeded on a store that held rows
\* before it, and both entities hold the bundle's first component
C29_Witness ==
    /\ last.op = "list_attach" /\ last.status = "Ok" /\ last.ids = <<E1, E10>>
    /\ nops > 1
    /\ \A e \in Entities :
          get(store, type_path(last.bundle[1]), e) = <<last.bundle[1]>>
    /\ \E e \in Entities, s \in Names :
          /\ <<s>> # EncodedField(last.bundle[1], FName)
          /\ component_index_path(UserInfo, FName, s, e) \in DOMAIN store

(***************************************************************************)
(* C30: EntityListHandler::delete() is all-or-nothing: when every listed   *)
(* entity has a metadata row, all rows of all listed entities are removed  *)
(* by one commit; when some listed entity has none, the call returns       *)
(* NotFound and removes no row.                                            *)
(***************************************************************************)
ListDeleteStep == nops' # nops /\ last'.op = "list_delete"

C30_ListDeleteAllOrNothing ==
    [][ListDeleteStep =>
          IF \A e \in Range(last'.ids) : ~NoMetadata(e)
          THEN /\ last'.status = "Ok"
               /\ \A e \in Range(last'.ids), k \in DOMAIN store' : ~MentionsEntity(k, e)
          ELSE /\ last'.status = "NotFound"
               /\ store' = store]_vars

(***************************************************************************)
(* C31: for every Filter (Value or Range) on UserInfo.name, in every state *)
(* reached by successful operations, count() equals the number of payloads *)
(* all() returns and the number of entities list() holds, and each         *)
(* matching entity is counted once.                                        *)
(***************************************************************************)
C31_CountAllListAgree ==
    \A lo \in FilterBounds, hi \in FilterBounds :
        LET cond == RangeCond(lo, hi)
            n == count(store, UserInfo, FName, cond)
            ids == list(store, UserInfo, FName, cond)
        IN  /\ n = Len(all(store, UserInfo, FName, cond))
            /\ n = Len(ids)
            /\ n = Cardinality(Range(ids))

(***************************************************************************)
(* C32: for a Range filter on UserInfo.name, all() returns the payloads in *)
(* ascending order of their encoded name, ties by entity id: the order of  *)
(* the index rows scanned, not the order of the payload keys.              *)
(***************************************************************************)
\* row x comes before row y in the order of (encoded name, entity id)
IndexOrder(x, y) ==
    LET vx == EncodedField(x.value, FName)[1]
        vy == EncodedField(y.value, FName)[1]
    IN  \/ KeyLess(vx, vy)
        \/ vx = vy /\ KeyLess(Split(x.key)[4], Split(y.key)[4])

C32_AllSortedByField ==
    \A lo \in FilterBounds, hi \in FilterBounds :
        LET rows == all(store, UserInfo, FName, RangeCond(lo, hi))
        IN  \A i \in 1..Len(rows), j \in 1..Len(rows) :
                i < j => IndexOrder(rows[i], rows[j])

(***************************************************************************)
(* C33: every paged scan loop moves its start_key strictly past the last   *)
(* key of each non-empty page, ends at the first page that is empty or     *)
(* shorter than the page size, visits no key of the range twice, and takes *)
(* at most one turn for each key of the range and one more.                *)
(***************************************************************************)
\* the keys of the loop's range in its snapshot
ScanRangeKeys ==
    {k \in DOMAIN txns.snap : KeyLeq(ScanStart(txns.call), k) /\ KeyLess(k, ScanEnd(txns.call))}

ScanTurn == txns.pc = "scanning" /\ txns'.pages = txns.pages + 1

C33_PagedScansTerminate ==
    /\ [][ScanTurn =>
            LET kvs == scan_keys(txns.snap, txns.start_key, txns.end_key, PAGE_SIZE)
            IN  /\ kvs # <<>> =>
                      /\ KeyLess(kvs[Len(kvs)], txns'.start_key)
                      /\ KeyLess(txns.start_key, txns'.start_key)
                /\ (txns'.pc = "done") <=> (Len(kvs) < PAGE_SIZE)]_vars
    /\ [](txns.pc # "new" =>
            /\ \A i \in 1..Len(txns.visited), j \in 1..Len(txns.visited) :
                  i # j => txns.visited[i] # txns.visited[j]
            /\ Range(txns.visited) \subseteq ScanRangeKeys
            /\ txns.pages <= Cardinality(ScanRangeKeys) + 1)

\* a loop has ended after more than one page, the last one empty
C33_Witness ==
    /\ txns.pc = "done"
    /\ txns.pages > 1
    /\ Len(txns.visited) = PAGE_SIZE


(***************************************************************************)
(* C34: attach, detach and delete on entity e leave every payload, index   *)
(* and metadata row of every other entity as it was, and delete(e) changes *)
(* an edge marker stored under another entity only if the marker is the    *)
(* mirror of an edge incident to e.                                        *)
(***************************************************************************)
\* the row of key k: <<value>>, or <<>> when the key is absent
RowAt(st, k) == IF k \in DOMAIN st THEN <<st[k]>> ELSE <<>>

\* the keys of the payload, index and metadata rows of entity x
OwnRows(x) ==
    {entity_metadata_path(x)}
        \cup {component_data_path(T, x) : T \in ComponentTypes}
        \cup {component_index_path(T, FName, v, x) : T \in ComponentTypes, v \in Names}

\* the keys of the edge markers stored under x whose other endpoint is y
MarkersUnder(x, y) ==
    {relation_edge_path(FriendRelation, x, y, d) : d \in Directions \ {"Both"}}

C34_OwnershipFrame ==
    [][nops' # nops /\ last'.op \in {"attach", "detach", "delete"} =>
          LET e == last'.ids[1]
          IN  \A x \in Entities \ {e} :
                  /\ \A k \in OwnRows(x) : RowAt(store', k) = RowAt(store, k)
                  /\ \A y \in Entities \ {e} : \A k \in MarkersUnder(x, y) :
                         RowAt(store', k) = RowAt(store, k)]_vars


(***************************************************************************)
(* C35: no read operation changes the store, whether it returns Ok or an   *)
(* error, and the transaction edges_entity commits holds no write.         *)
(***************************************************************************)
ReadStep == nops' # nops /\ last'.op \in ReadFns

C35_ReadsArePure ==
    [][ReadStep =>
          /\ store' = store
          /\ last'.op = "edges_entity" =>
                /\ last'.closed = "commit"
                /\ \A d \in Directions :
                      edges_entity(store, last'.type, last'.ids[1], d).txn = <<>>]_vars

\* edges_entity has returned the markers of an entity that has some
C35_Witness ==
    /\ last.op = "edges_entity"
    /\ last.status = "Ok"
    /\ edges_entity_in_txn(store, FriendRelation, last.ids[1], "Both") # <<>>


(***************************************************************************)
(* C36: EntityListHandler::get of component T returns the payload of each  *)
(* listed entity that has a payload row of T, once, and nothing else: as   *)
(* many payloads as listed entities have T.                                *)
(***************************************************************************)
\* the listed entities that have a payload row of T
Having(T, entity_ids) ==
    {e \in Range(entity_ids) : component_data_path(T, e) \in DOMAIN store}

C36_ListGetOnePerHolder ==
    \A entity_ids \in EntityLists, T \in ComponentTypes :
        LET payloads == list_get(store, T, entity_ids)
            having == Having(T, entity_ids)
        IN  /\ Len(payloads) = Cardinality(having)
            /\ \A v \in Range(payloads) \cup {store[component_data_path(T, e)] : e \in having} :
                  Cardinality({i \in 1..Len(payloads) : payloads[i] = v})
                      = Cardinality({e \in having : store[component_data_path(T, e)] = v})

\* of the list (e-1, e-10) the second entity has UserInfo, the first has lost it
C36_Witness ==
    /\ Having(UserInfo, <<E1, E10>>) = {E10}
    /\ last.op = "detach"
    /\ last.status = "Ok"
    /\ last.ids = <<E1>>


(***************************************************************************)
(* C37: `!` on a RelationDirection maps In to Out, Out to In and Both to   *)
(* Both, and applying it to its own result gives the direction back.       *)
(***************************************************************************)
C37_NotInvolution ==
    Returned("not") =>
        /\ last.arg = "In" => last.result = "Out"
        /\ last.arg = "Out" => last.result = "In"
        /\ last.arg = "Both" => last.result = "Both"
        /\ Not(last.result) = last.arg

\* `!` has returned for In
C37_Witness == Returned("not") /\ last.arg = "In" /\ last.result = "Out"


(***************************************************************************)
(* C38: in every interleaving of concurrent intern_string calls the cache  *)
(* never holds two entries of equal content, every returned entry has the  *)
(* content asked for, and calls made with equal strings return the same    *)
(* entry.                                                                  *)
(***************************************************************************)
C38_InternCanonical ==
    /\ \A x \in txns.cache, y \in txns.cache : x.content = y.content => x = y
    /\ \A r \in txns.returned : r.entry.content = r.s /\ r.entry \in txns.cache
    /\ \A r \in txns.returned, q \in txns.returned : r.s = q.s => r.entry = q.entry
    /\ \A t \in Threads, r \in txns.returned :
          txns.threads[t].pc = "done" /\ txns.threads[t].s = r.s
              => txns.threads[t].result = r.entry

\* a thread that missed its string under the read lock has found, under the
\* write lock, the entry another thread leaked in between
C38_Witness ==
    \E t \in Threads :
        /\ txns.threads[t].pc = "done"
        /\ txns.threads[t].via = "write"
        /\ txns.threads[t].result \in txns.cache

====
